---- MODULE Spec2Model ----
(***************************************************************************)
(* CleanDoc: the document redaction engine (DocumentCleaner) of            *)
(* app/services/document_cleaner.py, its singleton accessor get_cleaner    *)
(* and the calls made on it; the upload validators of                      *)
(* app/utils/validators.py and the endpoint of app/routes/main.py.         *)
(*                                                                         *)
(* Text is a sequence of symbols.  Each symbol stands for a fixed string:  *)
(*   "x"   a word holding no part of any marker                            *)
(*   "sp"  one space              "tab"  one tab or line break             *)
(*   "O1"  "ÓRGANO"               "O2"   "DE FISCALIZACIÓN SUPERIOR"       *)
(*   "D"   "DIRECCIÓN DE AUDITORÍA A ENTES ESTATALES"                      *)
(*   "E1"  "Ela"   "E2"  "boró"   "E0"   "Elabor"                          *)
(* so PATTERN_ORGANO matches O1 \s+ O2, PATTERN_DIRECCION matches D and    *)
(* PATTERN_ELABORO matches E1 E2 and E0 O1 (the Ó of ÓRGANO closes         *)
(* "Elabor[oó]").                                                          *)
(*                                                                         *)
(* A document is a table of nodes with parent links (the lxml tree).       *)
(***************************************************************************)
EXTENDS Integers, Sequences, FiniteSets, TLC

VARIABLES
    heap,       \* every CleaningStats object allocated so far
    cleaners,   \* every DocumentCleaner instance: the heap index of its .stats
    inst,       \* the module global _cleaner_instance: 0 (None) or an index of cleaners
    calls,      \* the clean_document calls requested through get_cleaner()
    req         \* the POST /limpiar_cedula request being served by limpiar_endpoint

vars == <<heap, cleaners, inst, calls, req>>

(***************************************************************************)
(* Bounds of the checked inputs.                                           *)
(***************************************************************************)
MaxTextLen == 3      \* symbols in the text of a one-run paragraph
MaxParas == 2        \* top-level blocks in a generated body
MaxHdrNodes == 3     \* content nodes in a generated header
MaxCalls == 2        \* sequential calls on the shared instance

SeqsUpTo(S, n) == UNION {[1..k -> S] : k \in 0..n}

(***************************************************************************)
(* Text: whitespace, strip, the three compiled patterns.                   *)
(***************************************************************************)
IsWs(c) == c \in {"sp", "tab"}

RECURSIVE SkipWs(_, _)
\* first index >= j of s that holds no whitespace (Len(s)+1 when none): the greedy \s+
SkipWs(s, j) == IF j <= Len(s) /\ IsWs(s[j]) THEN SkipWs(s, j + 1) ELSE j

\* index of the last symbol of the PATTERN_ORGANO match starting at i, 0 when none
OrganoEnd(s, i) ==
    IF s[i] = "O1" /\ i + 1 <= Len(s) /\ IsWs(s[i + 1])
    THEN LET k == SkipWs(s, i + 1)
         IN IF k <= Len(s) /\ s[k] = "O2" THEN k ELSE 0
    ELSE 0

PATTERN_ORGANO_search(s) == \E i \in 1..Len(s) : OrganoEnd(s, i) > 0

RECURSIVE OrganoSubFrom(_, _)
OrganoSubFrom(s, i) ==
    IF i > Len(s) THEN <<>>
    ELSE IF OrganoEnd(s, i) > 0 THEN OrganoSubFrom(s, OrganoEnd(s, i) + 1)
    ELSE <<s[i]>> \o OrganoSubFrom(s, i + 1)

\* PATTERN_ORGANO.sub("", s): leftmost non-overlapping matches deleted, one scan
PATTERN_ORGANO_sub(s) == OrganoSubFrom(s, 1)

PATTERN_DIRECCION_search(s) == \E i \in 1..Len(s) : s[i] = "D"

\* PATTERN_DIRECCION.sub("", s)
PATTERN_DIRECCION_sub(s) == SelectSeq(s, LAMBDA c : c # "D")

RECURSIVE LStrip(_)
LStrip(s) == IF s # <<>> /\ IsWs(Head(s)) THEN LStrip(Tail(s)) ELSE s

RECURSIVE RStrip(_)
RStrip(s) == IF s # <<>> /\ IsWs(s[Len(s)]) THEN RStrip(SubSeq(s, 1, Len(s) - 1)) ELSE s

\* str.strip()
Strip(s) == RStrip(LStrip(s))

\* str.replace(" ", ""): deletes spaces only, tabs and line breaks stay
ReplaceSpaces(s) == SelectSeq(s, LAMBDA c : c # "sp")

\* PATTERN_ELABORO.search(s)
PATTERN_ELABORO_search(s) ==
    \E i \in 1..(Len(s) - 1) :
        \/ s[i] = "E1" /\ s[i + 1] = "E2"
        \/ s[i] = "E0" /\ s[i + 1] = "O1"

RECURSIVE normalize_whitespace(_)
\* re.sub(r"\s+", " ", text or ""): every run of whitespace becomes one space
normalize_whitespace(s) ==
    IF s = <<>> THEN <<>>
    ELSE IF IsWs(Head(s)) THEN <<"sp">> \o normalize_whitespace(LStrip(s))
    ELSE <<Head(s)>> \o normalize_whitespace(Tail(s))

RECURSIVE Concat(_)
\* "".join(texts)
Concat(ts) == IF ts = <<>> THEN <<>> ELSE Head(ts) \o Concat(Tail(ts))

RECURSIVE JoinSp(_)
\* " ".join(texts)
JoinSp(ts) ==
    IF ts = <<>> THEN <<>>
    ELSE IF Len(ts) = 1 THEN Head(ts)
    ELSE Head(ts) \o <<"sp">> \o JoinSp(Tail(ts))

(***************************************************************************)
(* CleaningStats                                                           *)
(***************************************************************************)
CleaningStats ==
    [images_removed |-> 0,
     institutional_paragraphs_cleaned |-> 0,
     textboxes_cleaned |-> 0,
     signature_section_removed |-> FALSE,
     paragraphs_removed |-> 0,
     errors |-> <<>>]

(***************************************************************************)
(* The document tree.  Node kinds: the roots "body", "hdr", "ftr"; "p"     *)
(* (texts: the texts of its runs, which are its text nodes), "tbl",        *)
(* "drawing", "pict", "txbx" (txbxContent).  parent = 0 is getparent() =   *)
(* None: a root, or a node that was detached.  Index order is document     *)
(* order inside one region.                                                *)
(***************************************************************************)
Node(k, p, t) == [kind |-> k, parent |-> p, texts |-> t]

BodyRoot == 1

Ids(d) == 1..Len(d.nodes)

RECURSIVE HasAncestor(_, _, _)
\* a is a proper ancestor of n
HasAncestor(d, n, a) ==
    LET p == d.nodes[n].parent
    IN IF p = 0 THEN FALSE ELSE IF p = a THEN TRUE ELSE HasAncestor(d, p, a)

\* xpath("ancestor::*[local-name()=k]") is non-empty
HasAncestorKind(d, n, k) ==
    \E a \in Ids(d) : d.nodes[a].kind = k /\ HasAncestor(d, n, a)

RECURSIVE SetToSeq(_)
\* the ids of S in document order
SetToSeq(S) ==
    IF S = {} THEN <<>>
    ELSE LET m == CHOOSE x \in S : \A y \in S : x <= y
         IN <<m>> \o SetToSeq(S \ {m})

\* xpath(".//*[local-name()=k]") from node r
DescendantsOfKind(d, r, k) ==
    SetToSeq({n \in Ids(d) : d.nodes[n].kind = k /\ HasAncestor(d, n, r)})

\* parent.remove(n)
Detach(d, n) == [d EXCEPT !.nodes[n].parent = 0]

RECURSIVE RootOf(_, _)
RootOf(d, n) == IF d.nodes[n].parent = 0 THEN n ELSE RootOf(d, d.nodes[n].parent)

\* n is part of the document: its chain of parents ends in the body, a header or a footer
InDocument(d, n) == d.nodes[RootOf(d, n)].kind \in {"body", "hdr", "ftr"}

\* doc.save(output) followed by Document(output): what was detached is not written
Serialize(d) ==
    [d EXCEPT !.nodes = [n \in Ids(d) |->
        IF InDocument(d, n) THEN d.nodes[n] ELSE Node("gone", 0, <<>>)]]

\* doc.paragraphs: the paragraphs that are direct children of the body
Paragraphs(d) ==
    SetToSeq({n \in Ids(d) : d.nodes[n].kind = "p" /\ d.nodes[n].parent = BodyRoot})

\* Paragraph.text
ParaText(d, n) == Concat(d.nodes[n].texts)

(***************************************************************************)
(* Pass 1: DocumentCleaner._remove_header_images                           *)
(***************************************************************************)
Bump(st, f) == [st EXCEPT ![f] = @ + 1]

\* self.stats.errors.append(error_msg)
RecordError(st, error_msg) == [st EXCEPT !.errors = Append(@, error_msg)]

\* handling the element raises: it is one of the malformed elements of the document
Raises(d, n) == n \in d.malformed

\* the drawing is skipped ("continue"): it has a table ancestor
DrawingPreserved(d, shape) == HasAncestorKind(d, shape, "tbl")

\* the pict is skipped: it has a table ancestor or holds a txbxContent
PictPreserved(d, pict) ==
    \/ HasAncestorKind(d, pict, "tbl")
    \/ DescendantsOfKind(d, pict, "txbx") # <<>>

RECURSIVE RemoveDrawings(_, _, _)
\* the loop over the drawings list; raised: an exception has left the loop
RemoveDrawings(d, st, shapes) ==
    IF shapes = <<>> THEN [doc |-> d, st |-> st, raised |-> FALSE]
    ELSE LET shape == Head(shapes)
         IN IF Raises(d, shape) THEN [doc |-> d, st |-> st, raised |-> TRUE]
            ELSE IF DrawingPreserved(d, shape) THEN RemoveDrawings(d, st, Tail(shapes))
            ELSE IF d.nodes[shape].parent # 0
                 THEN RemoveDrawings(Detach(d, shape), Bump(st, "images_removed"), Tail(shapes))
                 ELSE RemoveDrawings(d, st, Tail(shapes))

RECURSIVE RemovePicts(_, _, _)
\* the loop over the picts list; raised: an exception has left the loop
RemovePicts(d, st, picts) ==
    IF picts = <<>> THEN [doc |-> d, st |-> st, raised |-> FALSE]
    ELSE LET pict == Head(picts)
         IN IF Raises(d, pict) THEN [doc |-> d, st |-> st, raised |-> TRUE]
            ELSE IF PictPreserved(d, pict) THEN RemovePicts(d, st, Tail(picts))
            ELSE IF d.nodes[pict].parent # 0
                 THEN RemovePicts(Detach(d, pict), Bump(st, "images_removed"), Tail(picts))
                 ELSE RemovePicts(d, st, Tail(picts))

\* the body of "for section in doc.sections" for one header: the try block holds both
\* loops, the except branch records the error and the next section follows
RemoveImagesOfHeader(d, st, hdr) ==
    LET r == RemoveDrawings(d, st, DescendantsOfKind(d, hdr, "drawing"))
        q == IF r.raised THEN r
             ELSE RemovePicts(r.doc, r.st, DescendantsOfKind(r.doc, hdr, "pict"))
    IN [doc |-> q.doc,
        st |-> IF q.raised THEN RecordError(q.st, "Error eliminando imagenes de encabezado")
               ELSE q.st]

RECURSIVE RemoveImagesOfSections_FootersToo(_, _, _)
\* the loop over the sections pruning the footer of each section after its header
RemoveImagesOfSections_FootersToo(d, st, secs) ==
    IF secs = <<>> THEN [doc |-> d, st |-> st]
    ELSE LET r == RemoveImagesOfHeader(d, st, Head(secs).hdr)
             q == RemoveImagesOfHeader(r.doc, r.st, Head(secs).ftr)
         IN RemoveImagesOfSections_FootersToo(q.doc, q.st, Tail(secs))

RECURSIVE RemoveImagesOfSections(_, _, _)
RemoveImagesOfSections(d, st, secs) ==
    IF secs = <<>> THEN [doc |-> d, st |-> st]
    ELSE LET r == RemoveImagesOfHeader(d, st, Head(secs).hdr)
         IN RemoveImagesOfSections(r.doc, r.st, Tail(secs))

remove_header_images(d, st) == RemoveImagesOfSections(d, st, d.sections)

(***************************************************************************)
(* Pass 2: DocumentCleaner._clean_institutional_paragraphs                 *)
(***************************************************************************)
\* the redaction with the whitespace of the result normalized before the strip
Redact_Normalized(texto) ==
    Strip(normalize_whitespace(PATTERN_DIRECCION_sub(PATTERN_ORGANO_sub(texto))))

\* texto_limpio: ORG deleted, then DIR deleted, then strip
Redact(texto) == Strip(PATTERN_DIRECCION_sub(PATTERN_ORGANO_sub(texto)))

IsInstitutional(texto) == PATTERN_ORGANO_search(texto) \/ PATTERN_DIRECCION_search(texto)

\* p.runs[0].text = texto_limpio; every other run's text = ""
KeepInFirst(texts, limpio) == [k \in 1..Len(texts) |-> IF k = 1 THEN limpio ELSE <<>>]

\* the loop body without its "if ... search(texto)" guard: every paragraph is rewritten
CleanParagraph_NoGuard(d, st, p) ==
    LET texto_limpio == Redact(ParaText(d, p))
    IN IF texto_limpio # <<>>
       THEN IF d.nodes[p].texts # <<>>
            THEN [doc |-> [d EXCEPT !.nodes[p].texts = KeepInFirst(@, texto_limpio)],
                  st |-> Bump(st, "institutional_paragraphs_cleaned")]
            ELSE [doc |-> d, st |-> st]
       ELSE [doc |-> Detach(d, p), st |-> Bump(st, "paragraphs_removed")]

\* the loop body with an emptied paragraph blanked and counted as cleaned, not detached
CleanParagraph_KeepEmpty(d, st, p) ==
    LET texto == ParaText(d, p)
    IN IF ~IsInstitutional(texto) THEN [doc |-> d, st |-> st]
       ELSE [doc |-> [d EXCEPT !.nodes[p].texts = KeepInFirst(@, Redact(texto))],
             st |-> Bump(st, "institutional_paragraphs_cleaned")]

\* the loop body with a detached paragraph counted as cleaned
CleanParagraph_CountAsCleaned(d, st, p) ==
    LET texto == ParaText(d, p)
        texto_limpio == Redact(texto)
    IN IF ~IsInstitutional(texto) THEN [doc |-> d, st |-> st]
       ELSE IF texto_limpio # <<>>
            THEN [doc |-> [d EXCEPT !.nodes[p].texts = KeepInFirst(@, texto_limpio)],
                  st |-> Bump(st, "institutional_paragraphs_cleaned")]
            ELSE [doc |-> Detach(d, p), st |-> Bump(st, "institutional_paragraphs_cleaned")]

\* the body of the loop for one paragraph
CleanParagraph(d, st, p) ==
    LET texto == ParaText(d, p)
        texto_limpio == Redact(texto)
    IN IF ~IsInstitutional(texto) THEN [doc |-> d, st |-> st]
       ELSE IF texto_limpio # <<>>
            THEN IF d.nodes[p].texts # <<>>
                 THEN [doc |-> [d EXCEPT !.nodes[p].texts = KeepInFirst(@, texto_limpio)],
                       st |-> Bump(st, "institutional_paragraphs_cleaned")]
                 ELSE [doc |-> d, st |-> st]
            ELSE [doc |-> Detach(d, p), st |-> Bump(st, "paragraphs_removed")]

\* one iteration of the loop: the try block holds one paragraph, the except branch
\* records the error
TryCleanParagraph(d, st, p) ==
    IF Raises(d, p) THEN [doc |-> d, st |-> RecordError(st, "Error limpiando parrafo")]
    ELSE CleanParagraph(d, st, p)

RECURSIVE CleanParagraphs_OverLiveList(_, _, _)
\* the loop walking doc.paragraphs by position while paragraphs are detached from it: the
\* paragraph that follows a detached one moves into its position and is passed over
CleanParagraphs_OverLiveList(d, st, ps) ==
    IF ps = <<>> THEN [doc |-> d, st |-> st, seen |-> <<>>]
    ELSE LET r == TryCleanParagraph(d, st, Head(ps))
             left == IF r.doc.nodes[Head(ps)].parent = 0 /\ Len(ps) > 1
                     THEN Tail(Tail(ps)) ELSE Tail(ps)
             rest == CleanParagraphs_OverLiveList(r.doc, r.st, left)
         IN [rest EXCEPT !.seen = <<Head(ps)>> \o @]

RECURSIVE CleanParagraphs(_, _, _)
\* the loop over ps; seen: the paragraphs the loop body was entered with, in order
CleanParagraphs(d, st, ps) ==
    IF ps = <<>> THEN [doc |-> d, st |-> st, seen |-> <<>>]
    ELSE LET r == TryCleanParagraph(d, st, Head(ps))
             rest == CleanParagraphs(r.doc, r.st, Tail(ps))
         IN [rest EXCEPT !.seen = <<Head(ps)>> \o @]

\* for p in list(doc.paragraphs): the list is a snapshot
clean_institutional_paragraphs(d, st) == CleanParagraphs(d, st, Paragraphs(d))

(***************************************************************************)
(* Pass 3: DocumentCleaner._clean_textboxes                                *)
(***************************************************************************)
\* xpath(".//*[local-name()='txbxContent']//*[local-name()='p']") from xmlroot
TextboxParagraphs(d, xmlroot) ==
    SetToSeq({n \in Ids(d) :
        /\ d.nodes[n].kind = "p"
        /\ \E b \in Ids(d) : /\ d.nodes[b].kind = "txbx"
                             /\ HasAncestor(d, b, xmlroot)
                             /\ HasAncestor(d, n, b)})

RECURSIVE NormalizedNonEmpty(_)
\* [self._normalize_whitespace(t.text) for t in ts if t.text]
NormalizedNonEmpty(ts) ==
    IF ts = <<>> THEN <<>>
    ELSE IF Head(ts) = <<>> THEN NormalizedNonEmpty(Tail(ts))
    ELSE <<normalize_whitespace(Head(ts))>> \o NormalizedNonEmpty(Tail(ts))

TextboxOriginal(ts) == JoinSp(NormalizedNonEmpty(ts))

\* the loop body with a detached text-box paragraph counted in paragraphs_removed as well
CleanTextboxParagraph_CountRemoved(d, st, p) ==
    LET ts == d.nodes[p].texts
        original == TextboxOriginal(ts)
        nuevo == Redact(original)
    IN IF ts = <<>> \/ nuevo = original THEN [doc |-> d, st |-> st]
       ELSE LET d1 == [d EXCEPT !.nodes[p].texts = KeepInFirst(@, nuevo)]
                st1 == Bump(st, "textboxes_cleaned")
            IN IF nuevo = <<>> /\ d1.nodes[p].parent # 0
               THEN [doc |-> Detach(d1, p), st |-> Bump(st1, "paragraphs_removed")]
               ELSE [doc |-> d1, st |-> st1]

\* the loop body detaching an emptied text-box paragraph only when a marker was deleted
CleanTextboxParagraph_DetachRedactedOnly(d, st, p) ==
    LET ts == d.nodes[p].texts
        original == TextboxOriginal(ts)
        nuevo == Redact(original)
    IN IF ts = <<>> \/ nuevo = original THEN [doc |-> d, st |-> st]
       ELSE LET d1 == [d EXCEPT !.nodes[p].texts = KeepInFirst(@, nuevo)]
                st1 == Bump(st, "textboxes_cleaned")
            IN IF nuevo = <<>> /\ IsInstitutional(original)
               THEN [doc |-> Detach(d1, p), st |-> st1]
               ELSE [doc |-> d1, st |-> st1]

\* the loop body with an emptied text-box paragraph left in place
CleanTextboxParagraph_NoDetach(d, st, p) ==
    LET ts == d.nodes[p].texts
        original == TextboxOriginal(ts)
        nuevo == Redact(original)
    IN IF ts = <<>> \/ nuevo = original THEN [doc |-> d, st |-> st]
       ELSE [doc |-> [d EXCEPT !.nodes[p].texts = KeepInFirst(@, nuevo)],
             st |-> Bump(st, "textboxes_cleaned")]

\* the loop body with nuevo compared against the text as stored, not against original
CleanTextboxParagraph_RawCompare(d, st, p) ==
    LET ts == d.nodes[p].texts
        nuevo == Redact(TextboxOriginal(ts))
    IN IF ts = <<>> \/ nuevo = Concat(ts) THEN [doc |-> d, st |-> st]
       ELSE LET d1 == [d EXCEPT !.nodes[p].texts = KeepInFirst(@, nuevo)]
            IN [doc |-> IF nuevo = <<>> THEN Detach(d1, p) ELSE d1,
                st |-> Bump(st, "textboxes_cleaned")]

\* the body of the loop for one text-box paragraph
CleanTextboxParagraph(d, st, p) ==
    LET ts == d.nodes[p].texts
        original == TextboxOriginal(ts)
        nuevo == Redact(original)
    IN IF ts = <<>> THEN [doc |-> d, st |-> st]
       ELSE IF nuevo # original
            THEN LET d1 == [d EXCEPT !.nodes[p].texts = KeepInFirst(@, nuevo)]
                     st1 == Bump(st, "textboxes_cleaned")
                 IN IF nuevo = <<>> /\ d1.nodes[p].parent # 0
                    THEN [doc |-> Detach(d1, p), st |-> st1]
                    ELSE [doc |-> d1, st |-> st1]
            ELSE [doc |-> d, st |-> st]

RECURSIVE CleanTextboxParagraphs_PerParagraph(_, _, _)
\* the loop with the try block around one text-box paragraph: the next one follows a raise
CleanTextboxParagraphs_PerParagraph(d, st, ps) ==
    IF ps = <<>> THEN [doc |-> d, st |-> st]
    ELSE LET r == IF Raises(d, Head(ps))
                  THEN [doc |-> d, st |-> RecordError(st, "Error limpiando textboxes")]
                  ELSE CleanTextboxParagraph(d, st, Head(ps))
         IN CleanTextboxParagraphs_PerParagraph(r.doc, r.st, Tail(ps))

RECURSIVE CleanTextboxParagraphs(_, _, _)
\* the loop: the try block holds the whole loop, the except branch records the error and
\* the function returns
CleanTextboxParagraphs(d, st, ps) ==
    IF ps = <<>> THEN [doc |-> d, st |-> st]
    ELSE IF Raises(d, Head(ps))
         THEN [doc |-> d, st |-> RecordError(st, "Error limpiando textboxes")]
         ELSE LET r == CleanTextboxParagraph(d, st, Head(ps))
              IN CleanTextboxParagraphs(r.doc, r.st, Tail(ps))

clean_textboxes(d, st, xmlroot) == CleanTextboxParagraphs(d, st, TextboxParagraphs(d, xmlroot))

\* the roots after the body with every header ahead of every footer
TextboxRoots_HeadersFirst(secs) ==
    [i \in 1..Len(secs) |-> secs[i].hdr] \o [i \in 1..Len(secs) |-> secs[i].ftr]

RECURSIVE TextboxRoots(_)
\* the roots clean_document hands to _clean_textboxes after the body, in order
TextboxRoots(secs) ==
    IF secs = <<>> THEN <<>>
    ELSE <<Head(secs).hdr, Head(secs).ftr>> \o TextboxRoots(Tail(secs))

RECURSIVE CleanTextboxesOfRoots(_, _, _)
CleanTextboxesOfRoots(d, st, roots) ==
    IF roots = <<>> THEN [doc |-> d, st |-> st]
    ELSE LET r == clean_textboxes(d, st, Head(roots))
         IN CleanTextboxesOfRoots(r.doc, r.st, Tail(roots))

\* the roots of the _clean_textboxes calls of clean_document, in call order
TextboxVisits(d) == <<BodyRoot>> \o TextboxRoots(d.sections)

\* clean_document, step 3: the document element, then each section's header and footer
clean_all_textboxes(d, st) == CleanTextboxesOfRoots(d, st, TextboxVisits(d))

(***************************************************************************)
(* Pass 4: DocumentCleaner._remove_signature_section                       *)
(***************************************************************************)
\* the match made on the text with every whitespace character removed
IsSignatureStart_AllWhitespace(texto) ==
    PATTERN_ELABORO_search(SelectSeq(texto, LAMBDA c : ~IsWs(c)))

\* PATTERN_ELABORO.search(p.text.replace(" ", ""))
IsSignatureStart(texto) == PATTERN_ELABORO_search(ReplaceSpaces(texto))

\* position in doc.paragraphs (from 1) of the first match, 0 when none
FirstSignature(d) ==
    LET ps == Paragraphs(d)
        hits == {i \in 1..Len(ps) : IsSignatureStart(ParaText(d, ps[i]))}
    IN IF hits = {} THEN 0 ELSE CHOOSE i \in hits : \A k \in hits : i <= k

RECURSIVE RemoveParagraphsAbove(_, _, _)
\* the loop with range(len(doc.paragraphs) - 1, indice_inicio, -1): the match itself stays
RemoveParagraphsAbove(d, j, first) ==
    IF j <= first THEN d
    ELSE RemoveParagraphsAbove(Detach(d, Paragraphs(d)[j]), j - 1, first)

RECURSIVE RemoveParagraphsDownTo(_, _, _)
\* for j in range(len(doc.paragraphs) - 1, indice_inicio - 1, -1), doc.paragraphs read anew
RemoveParagraphsDownTo(d, j, first) ==
    IF j < first THEN d
    ELSE RemoveParagraphsDownTo(Detach(d, Paragraphs(d)[j]), j - 1, first)

\* the pass with indice_inicio starting at 0 instead of None: no match cuts from the top
remove_signature_section_FromZero(d, st) ==
    LET first == IF FirstSignature(d) = 0 THEN 1 ELSE FirstSignature(d)
        n == Len(Paragraphs(d))
    IN [doc |-> RemoveParagraphsDownTo(d, n, first),
        st |-> [st EXCEPT !.signature_section_removed = TRUE,
                          !.paragraphs_removed = @ + (n - first + 1)]]

\* the pass cutting every body block from the first match on, the tables included
remove_signature_section_TablesToo(d, st) ==
    LET first == FirstSignature(d)
        n == Len(Paragraphs(d))
        cut == RemoveParagraphsDownTo(d, n, first)
    IN IF first = 0 THEN [doc |-> d, st |-> st]
       ELSE [doc |-> [cut EXCEPT !.nodes = [k \in Ids(cut) |->
                         IF /\ cut.nodes[k].kind = "tbl" /\ cut.nodes[k].parent = BodyRoot
                            /\ k > Paragraphs(d)[first]
                         THEN [cut.nodes[k] EXCEPT !.parent = 0] ELSE cut.nodes[k]]],
             st |-> [st EXCEPT !.signature_section_removed = TRUE,
                               !.paragraphs_removed = @ + (n - first + 1)]]

remove_signature_section(d, st) ==
    LET first == FirstSignature(d)
        n == Len(Paragraphs(d))
    IN IF first = 0 THEN [doc |-> d, st |-> st]
       ELSE [doc |-> RemoveParagraphsDownTo(d, n, first),
             st |-> [st EXCEPT !.signature_section_removed = TRUE,
                               !.paragraphs_removed = @ + (n - first + 1)]]

(***************************************************************************)
(* The documents handed to clean_document.                                 *)
(***************************************************************************)
\* malformed: the elements whose handling raises an exception
NoDoc == [nodes |-> <<>>, sections |-> <<>>, malformed |-> {}]

\* a loaded document with one section: the body, the header and the footer of the section
OneSection ==
    [nodes |-> <<Node("body", 0, <<>>), Node("hdr", 0, <<>>), Node("ftr", 0, <<>>)>>,
     sections |-> <<[hdr |-> 2, ftr |-> 3]>>, malformed |-> {}]

HdrRoot == 2
FtrRoot == 3

Para(texts) == [kind |-> "p", texts |-> texts]
Table(texts) == [kind |-> "tbl", texts |-> texts]

RECURSIVE AddBlocks(_, _)
\* the body blocks appended in order: a paragraph, or a table holding one cell paragraph
AddBlocks(nodes, blocks) ==
    IF blocks = <<>> THEN nodes
    ELSE LET b == Head(blocks)
         IN IF b.kind = "p"
            THEN AddBlocks(Append(nodes, Node("p", BodyRoot, b.texts)), Tail(blocks))
            ELSE AddBlocks(nodes \o <<Node("tbl", BodyRoot, <<>>),
                                      Node("p", Len(nodes) + 1, b.texts)>>, Tail(blocks))

BodyDoc(blocks) == [OneSection EXCEPT !.nodes = AddBlocks(@, blocks)]

ORG == <<"O1", "sp", "O2">>

\* bodies of one paragraph with one run
TextSym == {"x", "sp", "tab", "O1", "O2", "D"}
TextDocs == {BodyDoc(<<Para(<<t>>)>>) : t \in SeqsUpTo(TextSym, MaxTextLen)}

\* bodies of several blocks
BlockVocab ==
    {Para(<<>>),
     Para(<<<<"x">>>>),
     Para(<<ORG>>),
     Para(<<<<"x", "sp">>, ORG>>),
     Para(<<<<"E1", "E2", "x">>>>),
     Para(<<<<"E1", "sp", "E2">>>>),
     Para(<<<<"E1", "tab", "E2">>>>),
     Para(<<<<"E1">> \o ORG \o <<"E2">>>>),
     Para(<<<<"E0">> \o ORG>>),
     Para(<<<<"O1", "sp", "D", "O2">>>>),
     Table(<<<<"E1", "E2">>>>)}
ParaDocs == {BodyDoc(bs) : bs \in SeqsUpTo(BlockVocab, MaxParas)}

\* the body of test_clean_simple_document
ScenarioDoc ==
    BodyDoc(<<Para(<<<<"x">>>>), Para(<<ORG>>), Para(<<<<"x">>>>),
              Para(<<<<"E1", "E2", "x">>>>), Para(<<<<"x">>>>)>>)

\* headers: every nesting of tables, drawings, picts and text boxes, in document order
HdrKinds == {"tbl", "drawing", "pict", "txbx"}

RECURSIVE AncestorIn(_, _, _)
AncestorIn(par, n, a) ==
    IF par[n] = 0 THEN FALSE ELSE IF par[n] = a THEN TRUE ELSE AncestorIn(par, par[n], a)

\* node k hangs from the header root, from node k-1 or from an ancestor of node k-1
DocumentOrder(par) ==
    \A k \in DOMAIN par :
        /\ par[k] < k
        /\ k > 1 => (par[k] = 0 \/ par[k] = k - 1 \/ AncestorIn(par, k - 1, par[k]))

HdrDoc(kinds, par) ==
    [OneSection EXCEPT !.nodes = @ \o
        [k \in 1..Len(kinds) |->
            Node(kinds[k], IF par[k] = 0 THEN HdrRoot ELSE par[k] + 3, <<>>)]]

HdrDocs ==
    UNION {{HdrDoc(kinds, par) :
                kinds \in [1..n -> HdrKinds],
                par \in {q \in [1..n -> 0..n] : DocumentOrder(q)}} : n \in 0..MaxHdrNodes}

\* text boxes: one txbxContent with one paragraph, bare or inside a pict or a drawing,
\* in a body paragraph, in the header or in the footer
BoxTexts ==
    {<<>>,
     <<<<>>>>,
     <<<<"sp">>>>,
     <<<<"x">>>>,
     <<<<"x">>, <<>>>>,
     <<<<"x", "tab", "x">>>>,
     <<ORG>>,
     <<<<"x", "sp">> \o ORG \o <<"sp", "x">>>>,
     <<<<"O1", "sp">>, <<"O2">>>>,
     <<<<"O1", "sp", "D", "O2">>>>,
     <<<<"sp", "x", "sp", "sp", "x">>>>}

BoxDoc(region, wrapper, ts) ==
    LET base == IF region = BodyRoot
                THEN Append(OneSection.nodes, Node("p", BodyRoot, <<<<"x">>>>))
                ELSE OneSection.nodes
        top == IF region = BodyRoot THEN Len(base) ELSE region
        wrapped == IF wrapper = "none" THEN base ELSE Append(base, Node(wrapper, top, <<>>))
        boxParent == IF wrapper = "none" THEN top ELSE Len(wrapped)
    IN [OneSection EXCEPT !.nodes =
            wrapped \o <<Node("txbx", boxParent, <<>>), Node("p", Len(wrapped) + 1, ts)>>]

BoxDocs ==
    {BoxDoc(region, wrapper, ts) :
        region \in {BodyRoot, HdrRoot, FtrRoot},
        wrapper \in {"none", "pict", "drawing"},
        ts \in BoxTexts}

\* "x ORG x", words on both sides of the ORG phrase, in a text box of the footer and in
\* a body paragraph
SpacedText == <<"x", "sp">> \o ORG \o <<"sp", "x">>
SpacedDoc ==
    [OneSection EXCEPT !.nodes =
        BoxDoc(FtrRoot, "none", <<SpacedText>>).nodes \o <<Node("p", BodyRoot, <<SpacedText>>)>>]

\* a loaded document with two sections, each with a header and a footer of its own
TwoSections ==
    [nodes |-> <<Node("body", 0, <<>>), Node("hdr", 0, <<>>), Node("ftr", 0, <<>>),
                 Node("hdr", 0, <<>>), Node("ftr", 0, <<>>)>>,
     sections |-> <<[hdr |-> 2, ftr |-> 3], [hdr |-> 4, ftr |-> 5]>>, malformed |-> {}]

RECURSIVE AddBoxes(_, _)
\* one text box holding the ORG phrase under each of the nodes of tops
AddBoxes(nodes, tops) ==
    IF tops = <<>> THEN nodes
    ELSE AddBoxes(nodes \o <<Node("txbx", Head(tops), <<>>), Node("p", Len(nodes) + 1, <<ORG>>)>>,
                  Tail(tops))

\* two sections; the body holds "Ela ORG boró" and a plain paragraph; a text box in the
\* first body paragraph (node 6) and in each header and footer of tops
SectionDoc(tops) ==
    [TwoSections EXCEPT !.nodes =
        AddBoxes(@ \o <<Node("p", BodyRoot, <<<<"E1">> \o ORG \o <<"E2">>>>),
                        Node("p", BodyRoot, <<<<"x">>>>)>>, SetToSeq(tops))]
SectionDocs == {SectionDoc(tops) : tops \in SUBSET {2, 3, 4, 5, 6}}

\* one document with something for every pass and something each pass must leave: a drawing
\* in the header (4) and a pict in the footer (5); a body of an ORG paragraph (6), a plain
\* paragraph (7) holding a drawing (8), a text box with the ORG phrase (9, 10) and a text
\* box with the SENTINEL token (11, 12), a SENTINEL paragraph (13), a table whose cell
\* holds the SENTINEL token (14, 15) and a last plain paragraph (16)
MixedDoc ==
    [OneSection EXCEPT !.nodes = @ \o
        <<Node("drawing", HdrRoot, <<>>), Node("pict", FtrRoot, <<>>),
          Node("p", BodyRoot, <<ORG>>), Node("p", BodyRoot, <<<<"x">>>>),
          Node("drawing", 7, <<>>),
          Node("txbx", 7, <<>>), Node("p", 9, <<ORG>>),
          Node("txbx", 7, <<>>), Node("p", 11, <<<<"E1", "E2">>>>),
          Node("p", BodyRoot, <<<<"E1", "E2", "x">>>>),
          Node("tbl", BodyRoot, <<>>), Node("p", 14, <<<<"E1", "E2">>>>),
          Node("p", BodyRoot, <<<<"x">>>>)>>]

InputDocs ==
    TextDocs \cup ParaDocs \cup {ScenarioDoc, SpacedDoc, MixedDoc} \cup HdrDocs \cup BoxDocs
    \cup SectionDocs

\* the documents whose calls are also tried with a failing load or a failing save
FailDocs == {ScenarioDoc, BodyDoc(<<>>)}

Filenames == {"None", "a.docx"}

\* no request is being served
NoRequest == [pc |-> "none"]

(***************************************************************************)
(* get_cleaner() and DocumentCleaner.clean_document, one step at a time.   *)
(***************************************************************************)
NewCall(d, fname, loadOk, saveOk, origin) ==
    [pc |-> "get_cleaner", self |-> 0, input |-> d, doc |-> NoDoc, fname |-> fname,
     loadOk |-> loadOk, saveOk |-> saveOk, origin |-> origin, log |-> <<>>,
     visited |-> <<>>, evaluated |-> <<>>, ret |-> 0, out |-> NoDoc, raised |-> <<>>]

\* FileProcessingError(error_msg, filename=filename)
FileProcessingError(filename) ==
    [type |-> "FileProcessingError", filename |-> filename, status_code |-> 500]

\* get_cleaner: if _cleaner_instance is None
GetCleanerTest(c) ==
    /\ calls[c].pc = "get_cleaner"
    /\ calls' = [calls EXCEPT ![c].pc = IF inst = 0 THEN "construct" ELSE "return_instance"]
    /\ UNCHANGED <<heap, cleaners, inst, req>>

\* get_cleaner: _cleaner_instance = DocumentCleaner(); __init__ sets self.stats = CleaningStats()
GetCleanerConstruct(c) ==
    /\ calls[c].pc = "construct"
    /\ heap' = Append(heap, CleaningStats)
    /\ cleaners' = Append(cleaners, [stats |-> Len(heap) + 1])
    /\ inst' = Len(cleaners) + 1
    /\ calls' = [calls EXCEPT ![c].pc = "return_instance"]
    /\ UNCHANGED req

\* get_cleaner: return _cleaner_instance
GetCleanerReturn(c) ==
    /\ calls[c].pc = "return_instance"
    /\ calls' = [calls EXCEPT ![c].self = inst, ![c].pc = "reset"]
    /\ UNCHANGED <<heap, cleaners, inst, req>>

\* clean_document without the reset: the instance keeps the stats object it had
ResetStats_Reuse(c) ==
    /\ calls[c].pc = "reset"
    /\ calls' = [calls EXCEPT ![c].pc = "load"]
    /\ UNCHANGED <<heap, cleaners, inst, req>>

\* clean_document: self.stats = CleaningStats()
ResetStats(c) ==
    /\ calls[c].pc = "reset"
    /\ heap' = Append(heap, CleaningStats)
    /\ cleaners' = [cleaners EXCEPT ![calls[c].self].stats = Len(heap) + 1]
    /\ calls' = [calls EXCEPT ![c].pc = "load"]
    /\ UNCHANGED <<inst, req>>

\* clean_document: doc = Document(file_stream), or the except branch
LoadDocument(c) ==
    /\ calls[c].pc = "load"
    /\ calls' = IF calls[c].loadOk
                THEN [calls EXCEPT ![c].doc = calls[c].input, ![c].pc = "images"]
                ELSE [calls EXCEPT ![c].raised = Append(@, FileProcessingError(calls[c].fname)),
                                   ![c].pc = "raised"]
    /\ UNCHANGED <<heap, cleaners, inst, req>>

\* one pass on the loaded document, counting into the stats object self.stats refers to;
\* roots: the roots the pass hands to _clean_textboxes
RunPass(c, pass, next, r, roots) ==
    /\ calls[c].pc = pass
    /\ heap' = [heap EXCEPT ![cleaners[calls[c].self].stats] = r.st]
    /\ calls' = [calls EXCEPT ![c].doc = r.doc, ![c].pc = next, ![c].log = Append(@, pass),
                              ![c].visited = @ \o roots]
    /\ UNCHANGED <<cleaners, inst, req>>

SelfStats(c) == heap[cleaners[calls[c].self].stats]

RunHeaderImages(c) ==
    /\ calls[c].pc = "images"
    /\ RunPass(c, "images", "paragraphs", remove_header_images(calls[c].doc, SelfStats(c)),
               <<>>)

\* the body redaction pass; evaluated: the paragraphs its loop body was entered with
RunParagraphs(c) ==
    /\ calls[c].pc = "paragraphs"
    /\ LET r == clean_institutional_paragraphs(calls[c].doc, SelfStats(c))
       IN /\ heap' = [heap EXCEPT ![cleaners[calls[c].self].stats] = r.st]
          /\ calls' = [calls EXCEPT ![c].doc = r.doc, ![c].pc = "textboxes",
                                    ![c].log = Append(@, "paragraphs"),
                                    ![c].evaluated = r.seen]
    /\ UNCHANGED <<cleaners, inst, req>>

RunTextboxes(c) ==
    /\ calls[c].pc = "textboxes"
    /\ RunPass(c, "textboxes", "signature", clean_all_textboxes(calls[c].doc, SelfStats(c)),
               TextboxVisits(calls[c].doc))

RunSignature(c) ==
    /\ calls[c].pc = "signature"
    /\ RunPass(c, "signature", "save", remove_signature_section(calls[c].doc, SelfStats(c)),
               <<>>)

\* clean_document returning what it has when the save fails
SaveDocument_Partial(c) ==
    /\ calls[c].pc = "save"
    /\ calls' = [calls EXCEPT ![c].out = Serialize(calls[c].doc),
                              ![c].ret = cleaners[calls[c].self].stats,
                              ![c].pc = "done"]
    /\ UNCHANGED <<heap, cleaners, inst, req>>

\* clean_document: doc.save(output); return output, self.stats; or the except branch
SaveDocument(c) ==
    /\ calls[c].pc = "save"
    /\ calls' = IF calls[c].saveOk
                THEN [calls EXCEPT ![c].out = Serialize(calls[c].doc),
                                   ![c].ret = cleaners[calls[c].self].stats,
                                   ![c].pc = "done"]
                ELSE [calls EXCEPT ![c].raised = Append(@, FileProcessingError(calls[c].fname)),
                                   ![c].pc = "raised"]
    /\ UNCHANGED <<heap, cleaners, inst, req>>

Finished(c) == calls[c].pc \in {"done", "raised"}

\* the caller's next request: the previous output again, or the previous input again
StartCall ==
    /\ Len(calls) < MaxCalls
    /\ Finished(Len(calls))
    /\ LET last == calls[Len(calls)]
       IN \E origin \in {"output", "input"} :
            /\ origin = "output" => last.pc = "done"
            /\ calls' = Append(calls,
                   NewCall(IF origin = "output" THEN last.out ELSE last.input,
                           last.fname, TRUE, TRUE, origin))
    /\ UNCHANGED <<heap, cleaners, inst, req>>

Step(c) ==
    \/ GetCleanerTest(c)
    \/ GetCleanerConstruct(c)
    \/ GetCleanerReturn(c)
    \/ ResetStats(c)
    \/ LoadDocument(c)
    \/ RunHeaderImages(c)
    \/ RunParagraphs(c)
    \/ RunTextboxes(c)
    \/ RunSignature(c)
    \/ SaveDocument(c)

(***************************************************************************)
(* Spec: one caller, one call after the other.                             *)
(***************************************************************************)
Init ==
    /\ heap = <<>>
    /\ cleaners = <<>>
    /\ inst = 0
    /\ req = NoRequest
    /\ \E d \in InputDocs, fname \in Filenames, loadOk \in BOOLEAN, saveOk \in BOOLEAN :
        /\ d \notin FailDocs => (loadOk /\ saveOk /\ fname = "a.docx")
        /\ calls = <<NewCall(d, fname, loadOk, saveOk, "fresh")>>

Next == Step(Len(calls)) \/ StartCall

Spec == Init /\ [][Next]_vars

(***************************************************************************)
(* Properties.                                                             *)
(***************************************************************************)
Returned(c) == heap[calls[c].ret]

NoCounts(st) ==
    /\ st.images_removed = 0
    /\ st.institutional_paragraphs_cleaned = 0
    /\ st.textboxes_cleaned = 0
    /\ st.paragraphs_removed = 0
    /\ st.signature_section_removed = FALSE

\* the texts of every node of the document, detached nodes left out
DocTexts(d) == [n \in Ids(d) |-> IF InDocument(d, n) THEN d.nodes[n].texts ELSE <<>>]

\* the nodes that are part of the document
DocNodes(d) == {n \in Ids(d) : InDocument(d, n)}

\* C1: a clean_document run on the output of a previous run counts nothing, leaves
\* signature_section_removed false and returns the texts it was given.
C1_Idempotence ==
    \A c \in 1..Len(calls) :
        (calls[c].origin = "output" /\ calls[c].pc = "done") =>
            /\ NoCounts(Returned(c))
            /\ DocTexts(calls[c].out) = DocTexts(calls[c].input)
            /\ DocNodes(calls[c].out) = DocNodes(calls[c].input)

\* the text a body paragraph holds when the redaction pass is over
TextAfterRedaction(texto) == IF IsInstitutional(texto) THEN Redact(texto) ELSE texto

\* the body paragraphs of d, as a set
ParagraphSet(d) == {n \in Ids(d) : d.nodes[n].kind = "p" /\ d.nodes[n].parent = BodyRoot}

\* n and every body paragraph before it have no SENTINEL match in the input text
BeforeInputSentinel(d, n) ==
    \A m \in ParagraphSet(d) : m <= n => ~IsSignatureStart(ParaText(d, m))

\* n and every body paragraph before it have no SENTINEL match in the redacted text
BeforeRedactedSentinel(d, n) ==
    \A m \in ParagraphSet(d) : m <= n => ~IsSignatureStart(TextAfterRedaction(ParaText(d, m)))

\* the paragraphs of S are in the output, in the input's order, with the input's run texts
PreservedInOrder(c, S) ==
    LET d == calls[c].input
        o == calls[c].out
    IN /\ \A n \in S : n \in ParagraphSet(o) /\ o.nodes[n].texts = d.nodes[n].texts
       /\ SelectSeq(Paragraphs(o), LAMBDA n : n \in S) = SelectSeq(Paragraphs(d), LAMBDA n : n \in S)

\* C2 as claimed: a body paragraph matching none of ORG, DIR and SENTINEL that comes before
\* the first SENTINEL-matching paragraph of the input is returned unchanged and in order.
C2_Original ==
    \A c \in 1..Len(calls) :
        calls[c].pc = "done" =>
            PreservedInOrder(c, {n \in ParagraphSet(calls[c].input) :
                /\ ~IsInstitutional(ParaText(calls[c].input, n))
                /\ BeforeInputSentinel(calls[c].input, n)})

\* C2 as amended: a body paragraph matching neither ORG nor DIR that comes before the first
\* paragraph whose redacted text matches SENTINEL is returned unchanged and in order.
C2_BodyPreservation ==
    \A c \in 1..Len(calls) :
        calls[c].pc = "done" =>
            PreservedInOrder(c, {n \in ParagraphSet(calls[c].input) :
                /\ ~IsInstitutional(ParaText(calls[c].input, n))
                /\ BeforeRedactedSentinel(calls[c].input, n)})

\* a returned document that kept a plain paragraph standing after a redacted one and
\* before a removed signature section
C2_Witness ==
    \E c \in 1..Len(calls) :
        /\ calls[c].pc = "done"
        /\ Returned(c).signature_section_removed
        /\ \E m, n \in ParagraphSet(calls[c].input) :
            /\ m < n
            /\ IsInstitutional(ParaText(calls[c].input, m))
            /\ ~IsInstitutional(ParaText(calls[c].input, n))
            /\ BeforeRedactedSentinel(calls[c].input, n)
            /\ n \in ParagraphSet(calls[c].out)

\* C3: when the truncation pass finds its first SENTINEL paragraph at position i (from 0),
\* exactly the i paragraphs before it remain, the others are detached, the flag is set
\* and paragraphs_removed grows by the number of paragraphs minus i.
C3_TruncationCompleteness ==
    [][\A c \in 1..Len(calls) :
        (calls[c].pc = "signature" /\ calls'[c].pc = "save") =>
            LET d == calls[c].doc
                e == calls'[c].doc
                ps == Paragraphs(d)
            IN \A i \in 1..Len(ps) :
                (/\ IsSignatureStart(ParaText(d, ps[i]))
                 /\ \A k \in 1..(i - 1) : ~IsSignatureStart(ParaText(d, ps[k])))
                => /\ Paragraphs(e) = SubSeq(ps, 1, i - 1)
                   /\ \A k \in i..Len(ps) : e.nodes[ps[k]].parent = 0
                   /\ SelfStats(c)'.signature_section_removed
                   /\ SelfStats(c)'.paragraphs_removed =
                          SelfStats(c).paragraphs_removed + (Len(ps) - (i - 1))]_vars

\* the truncation pass has cut a signature section of two paragraphs or more and left
\* a paragraph in front of it
C3_Witness ==
    \E c \in 1..Len(calls) :
        /\ calls[c].pc = "save"
        /\ SelfStats(c).signature_section_removed
        /\ Paragraphs(calls[c].doc) # <<>>
        /\ Cardinality({n \in ParagraphSet(calls[c].input) :
               IsSignatureStart(ParaText(calls[c].doc, n)) \/
               \E m \in ParagraphSet(calls[c].input) :
                   m < n /\ IsSignatureStart(ParaText(calls[c].doc, m))}) >= 2

\* C4: when no body paragraph matches SENTINEL, the truncation pass detaches nothing,
\* leaves the flag false and leaves paragraphs_removed and errors as they were.
C4_NoMatchNoOp ==
    [][\A c \in 1..Len(calls) :
        (/\ calls[c].pc = "signature" /\ calls'[c].pc = "save"
         /\ \A n \in ParagraphSet(calls[c].doc) : ~IsSignatureStart(ParaText(calls[c].doc, n)))
        => /\ calls'[c].doc = calls[c].doc
           /\ SelfStats(c)'.signature_section_removed = FALSE
           /\ SelfStats(c)'.paragraphs_removed = SelfStats(c).paragraphs_removed
           /\ SelfStats(c)'.errors = <<>>]_vars

\* the truncation pass has run, after a redaction that removed a paragraph, over a body
\* that still holds a paragraph and has found no SENTINEL
C4_Witness ==
    \E c \in 1..Len(calls) :
        /\ calls[c].pc = "save"
        /\ ~SelfStats(c).signature_section_removed
        /\ Paragraphs(calls[c].doc) # <<>>
        /\ SelfStats(c).paragraphs_removed >= 1

\* the scenario of test_clean_simple_document: the two plain paragraphs in front of the
\* SENTINEL paragraph are returned, the flag is set, three paragraphs are counted
ScenarioResult(c) ==
    (calls[c].input = ScenarioDoc /\ calls[c].origin = "fresh") =>
        /\ Paragraphs(calls[c].out) = <<4, 6>>
        /\ calls[c].out.nodes[4].texts = <<<<"x">>>>
        /\ calls[c].out.nodes[6].texts = <<<<"x">>>>
        /\ Returned(c).signature_section_removed
        /\ Returned(c).paragraphs_removed = 3

\* C5 as claimed: the scenario, and fewer paragraphs come out than went in whenever a
\* body paragraph of the input matches SENTINEL.
C5_Original ==
    \A c \in 1..Len(calls) :
        calls[c].pc = "done" =>
            /\ ScenarioResult(c)
            /\ (\E n \in ParagraphSet(calls[c].input) :
                    IsSignatureStart(ParaText(calls[c].input, n)))
               => Len(Paragraphs(calls[c].out)) < Len(Paragraphs(calls[c].input))

\* C5 as amended: the scenario, and fewer paragraphs come out than went in whenever a
\* body paragraph matches SENTINEL in the text the redaction pass leaves it with.
C5_Scenario ==
    \A c \in 1..Len(calls) :
        calls[c].pc = "done" =>
            /\ ScenarioResult(c)
            /\ (\E n \in ParagraphSet(calls[c].input) :
                    IsSignatureStart(TextAfterRedaction(ParaText(calls[c].input, n))))
               => Len(Paragraphs(calls[c].out)) < Len(Paragraphs(calls[c].input))

\* the scenario document has been cleaned and returned
C5_Witness ==
    \E c \in 1..Len(calls) :
        calls[c].pc = "done" /\ calls[c].input = ScenarioDoc /\ calls[c].origin = "fresh"

\* the image carriers (drawing or pict) of the header
Carriers(d) ==
    {n \in Ids(d) : d.nodes[n].kind \in {"drawing", "pict"} /\ HasAncestor(d, n, HdrRoot)}

\* C6: every image carrier of the header that has a table ancestor is still in the
\* header's tree after the image-pruning pass.
C6_TableImagePreservation ==
    \A c \in 1..Len(calls) :
        calls[c].pc = "paragraphs" =>
            \A n \in Carriers(calls[c].input) :
                HasAncestorKind(calls[c].input, n, "tbl") => HasAncestor(calls[c].doc, n, HdrRoot)

\* C7: every pict of the header that holds a txbxContent is still in the header's tree
\* after the image-pruning pass.
C7_TextboxPictPreservation ==
    \A c \in 1..Len(calls) :
        calls[c].pc = "paragraphs" =>
            \A n \in Carriers(calls[c].input) :
                (/\ calls[c].input.nodes[n].kind = "pict"
                 /\ DescendantsOfKind(calls[c].input, n, "txbx") # <<>>)
                => HasAncestor(calls[c].doc, n, HdrRoot)

\* clean_document's four passes in order, from the stats record st
clean_passes(d, st) ==
    LET a == remove_header_images(d, st)
        b == clean_institutional_paragraphs(a.doc, a.st)
        t == clean_all_textboxes(b.doc, b.st)
    IN remove_signature_section(t.doc, t.st)

\* the stats of one document alone: what the passes count from a fresh CleaningStats
OwnStats(d) == clean_passes(d, CleaningStats).st

\* C8: in a sequence of calls on one instance every call starts from a fresh CleaningStats,
\* returns the counts of its own document only, and no later call changes a stats record
\* that an earlier call returned.
C8_NoStatsLeakage ==
    /\ [](\A c \in 1..Len(calls) :
            /\ calls[c].pc = "load" => SelfStats(c) = CleaningStats
            /\ calls[c].pc = "done" => Returned(c) = OwnStats(calls[c].input))
    /\ [][\A c \in 1..Len(calls) :
            calls[c].pc = "done" => heap'[calls[c].ret] = heap[calls[c].ret]]_vars

\* two calls have returned, the first with counts, the second in its own stats record
C8_Witness ==
    /\ Len(calls) = 2
    /\ calls[1].pc = "done"
    /\ calls[2].pc = "done"
    /\ calls[2].origin = "input"
    /\ calls[1].ret # calls[2].ret
    /\ Returned(1).paragraphs_removed > 0
    /\ Returned(2).paragraphs_removed > 0

\* C9: each of two interleaved calls on the singleton returns the counts of its own
\* document and nothing of the other's.
C9_ParallelStats ==
    \A c \in 1..Len(calls) :
        calls[c].pc = "done" => Returned(c) = OwnStats(calls[c].input)

\* C10: a failing load or save raises one FileProcessingError carrying the filename and
\* returns neither output nor stats; output and stats are returned only after the load,
\* the four passes and the save.
C10_FatalAllOrNothing ==
    \A c \in 1..Len(calls) :
        /\ calls[c].pc = "raised" =>
               /\ calls[c].raised = <<FileProcessingError(calls[c].fname)>>
               /\ ~calls[c].loadOk \/ ~calls[c].saveOk
        /\ (Finished(c) /\ (~calls[c].loadOk \/ ~calls[c].saveOk)) => calls[c].pc = "raised"
        /\ calls[c].pc # "done" => calls[c].out = NoDoc /\ calls[c].ret = 0
        /\ calls[c].pc = "done" =>
               /\ calls[c].loadOk /\ calls[c].saveOk
               /\ calls[c].log = <<"images", "paragraphs", "textboxes", "signature">>
               /\ calls[c].raised = <<>>
               /\ calls[c].out # NoDoc /\ calls[c].ret # 0

\* a call whose four passes changed the document has failed in the save
C10_Witness ==
    \E c \in 1..Len(calls) :
        /\ calls[c].pc = "raised"
        /\ ~calls[c].saveOk
        /\ Len(calls[c].log) = 4
        /\ calls[c].doc # calls[c].input

\* the paragraphs of d that stand inside a txbxContent
BoxParagraphs(d) == {n \in Ids(d) : d.nodes[n].kind = "p" /\ HasAncestorKind(d, n, "txbx")}

\* no two whitespace symbols side by side, and no whitespace other than one space
Collapsed(s) ==
    /\ \A i \in 1..Len(s) : s[i] # "tab"
    /\ \A i \in 1..(Len(s) - 1) : ~(IsWs(s[i]) /\ IsWs(s[i + 1]))

\* C14: _normalize_whitespace returns its input with every whitespace run collapsed to one
\* space and with no whitespace at either end; the empty text gives the empty text.
C14_NormalizeTrims ==
    \A c \in 1..Len(calls) :
        calls[c].pc = "signature" =>
            \A p \in BoxParagraphs(calls[c].input) :
                \A k \in 1..Len(calls[c].input.nodes[p].texts) :
                    LET text == calls[c].input.nodes[p].texts[k]
                        r == normalize_whitespace(text)
                    IN /\ Collapsed(r)
                       /\ r = Strip(r)
                       /\ SelectSeq(r, LAMBDA s : ~IsWs(s)) = SelectSeq(text, LAMBDA s : ~IsWs(s))
                       /\ text = <<>> => r = <<>>

\* the body paragraphs of d that match ORG or DIR and keep text / keep no text
KeptByRedaction(d) ==
    {p \in ParagraphSet(d) : IsInstitutional(ParaText(d, p)) /\ Redact(ParaText(d, p)) # <<>>}
EmptiedByRedaction(d) ==
    {p \in ParagraphSet(d) : IsInstitutional(ParaText(d, p)) /\ Redact(ParaText(d, p)) = <<>>}

SentinelIgnoringWhitespace(texto) ==
    PATTERN_ELABORO_search(SelectSeq(texto, LAMBDA s : ~IsWs(s)))
SentinelIgnoringSpaces(texto) ==
    PATTERN_ELABORO_search(SelectSeq(texto, LAMBDA s : s # "sp"))

\* the paragraphs the truncation pass leaves when it cuts from the first paragraph whose
\* text, every whitespace (allWhitespace) or every space removed, holds SENTINEL: those in
\* front of it, all of them when there is none
LeftByTruncation(d, allWhitespace) ==
    LET ps == Paragraphs(d)
        hits == {i \in 1..Len(ps) :
                    IF allWhitespace THEN SentinelIgnoringWhitespace(ParaText(d, ps[i]))
                    ELSE SentinelIgnoringSpaces(ParaText(d, ps[i]))}
    IN IF hits = {} THEN ps
       ELSE SubSeq(ps, 1, (CHOOSE i \in hits : \A k \in hits : i <= k) - 1)

\* C17 as claimed: the truncation pass cuts from the first body paragraph whose text with
\* every whitespace character removed (spaces, tabs, line breaks) holds the SENTINEL token.
C17_Original ==
    [][\A c \in 1..Len(calls) :
        (calls[c].pc = "signature" /\ calls'[c].pc = "save") =>
            Paragraphs(calls'[c].doc) =
                LeftByTruncation(calls[c].doc, TRUE)]_vars

\* C17 as amended: the truncation pass cuts from the first body paragraph whose text with
\* its space characters removed holds the SENTINEL token; tabs and line breaks stay in
\* the text, so a token split by one of them is not found.
C17_SentinelIgnoresSpaces ==
    [][\A c \in 1..Len(calls) :
        (calls[c].pc = "signature" /\ calls'[c].pc = "save") =>
            Paragraphs(calls'[c].doc) =
                LeftByTruncation(calls[c].doc, FALSE)]_vars

\* the truncation pass has passed over a token split by a tab and cut from a later
\* paragraph whose token is split by a space
C17_Witness ==
    \E c \in 1..Len(calls) :
        /\ calls[c].pc = "save"
        /\ SelfStats(c).signature_section_removed
        /\ \E p, q \in ParagraphSet(calls[c].input) :
            /\ p < q
            /\ ParaText(calls[c].input, p) = <<"E1", "tab", "E2">>
            /\ ParaText(calls[c].input, q) = <<"E1", "sp", "E2">>
            /\ Paragraphs(calls[c].doc) = <<p>>

RECURSIVE OrganoCutFrom(_, _)
\* the text from index i with every ORG match replaced by the mark "cut"
OrganoCutFrom(s, i) ==
    IF i > Len(s) THEN <<>>
    ELSE IF OrganoEnd(s, i) > 0 THEN <<"cut">> \o OrganoCutFrom(s, OrganoEnd(s, i) + 1)
    ELSE <<s[i]>> \o OrganoCutFrom(s, i + 1)

\* every ORG match, then every DIR match, replaced by the mark "cut"
MarkedCuts(s) == [i \in 1..Len(OrganoCutFrom(s, 1)) |->
                    IF OrganoCutFrom(s, 1)[i] = "D" THEN "cut" ELSE OrganoCutFrom(s, 1)[i]]

RECURSIVE GapEnd(_, _)
\* first index >= j of s that holds neither whitespace nor a cut mark
GapEnd(s, j) == IF j <= Len(s) /\ (IsWs(s[j]) \/ s[j] = "cut") THEN GapEnd(s, j + 1) ELSE j

RECURSIVE CloseCuts(_, _)
\* the marked text from index i with the whitespace around each cut normalized: a stretch
\* of whitespace and cuts that holds a cut becomes one space, or nothing when it holds
\* no whitespace
CloseCuts(s, i) ==
    IF i > Len(s) THEN <<>>
    ELSE LET k == GapEnd(s, i)
         IN IF k = i THEN <<s[i]>> \o CloseCuts(s, i + 1)
            ELSE LET gap == SubSeq(s, i, k - 1)
                 IN (IF \A j \in 1..Len(gap) : gap[j] # "cut" THEN gap
                     ELSE IF \E j \in 1..Len(gap) : IsWs(gap[j]) THEN <<"sp">>
                     ELSE <<>>) \o CloseCuts(s, k)

\* the redacted text as claimed: matches deleted, whitespace next to them normalized, trimmed
RedactClosingCuts(texto) == Strip(CloseCuts(MarkedCuts(texto), 1))

\* the redacted text without the normalization: matches deleted, then trimmed
RedactKeepingGaps(texto) == Strip(PATTERN_DIRECCION_sub(PATTERN_ORGANO_sub(texto)))

\* the texts the two redaction passes leave are the redacted texts, with the whitespace
\* next to the deleted matches normalized (closing) or kept: in a body paragraph that
\* matches and keeps text, in a text-box paragraph that is rewritten
RedactionGives(c, closing) ==
    LET d == calls[c].doc
        e == calls'[c].doc
        Result(texto) == IF closing THEN RedactClosingCuts(texto) ELSE RedactKeepingGaps(texto)
    IN /\ (calls[c].pc = "paragraphs" /\ calls'[c].pc = "textboxes") =>
            \A p \in ParagraphSet(d) :
                (IsInstitutional(ParaText(d, p)) /\ Result(ParaText(d, p)) # <<>>)
                => ParaText(e, p) = Result(ParaText(d, p))
       /\ (calls[c].pc = "textboxes" /\ calls'[c].pc = "signature") =>
            \A p \in BoxParagraphs(d) :
                (InDocument(d, p) /\ IsInstitutional(TextboxOriginal(d.nodes[p].texts)))
                => ParaText(e, p) = Result(TextboxOriginal(d.nodes[p].texts))

\* C18 as claimed: the redacted text is the text with every ORG match, then every DIR
\* match deleted, the whitespace next to the deleted matches normalized, and trimmed:
\* "A <ORG> B" becomes "A B", in body paragraphs and in text-box paragraphs.
C18_Original == [][\A c \in 1..Len(calls) : RedactionGives(c, TRUE)]_vars

\* C18 as amended: the redacted text is the text with every ORG match, then every DIR
\* match deleted, and trimmed; the whitespace on both sides of a deleted match stays:
\* "A <ORG> B" becomes "A  B" with two spaces, in body and in text-box paragraphs.
C18_SubstitutionKeepsGaps == [][\A c \in 1..Len(calls) : RedactionGives(c, FALSE)]_vars

\* both redaction passes have turned "x ORG x" into "x  x": a body paragraph and a
\* text-box paragraph of the footer
C18_Witness ==
    \E c \in 1..Len(calls) :
        /\ calls[c].pc = "signature"
        /\ calls[c].input = SpacedDoc
        /\ \E p \in ParagraphSet(calls[c].doc), q \in BoxParagraphs(calls[c].doc) :
            /\ ParaText(calls[c].doc, p) = <<"x", "sp", "sp", "x">>
            /\ ParaText(calls[c].doc, q) = <<"x", "sp", "sp", "x">>
            /\ SelfStats(c).institutional_paragraphs_cleaned = 1
            /\ SelfStats(c).textboxes_cleaned = 1

\* the text-box paragraphs of the body, the headers and the footers of d
LiveBoxParagraphs(d) == {p \in BoxParagraphs(d) : InDocument(d, p)}

\* original and candidate of a text-box paragraph
BoxOriginal(d, p) == JoinSp(NormalizedNonEmpty(d.nodes[p].texts))
BoxCandidate(d, p) == Strip(PATTERN_DIRECCION_sub(PATTERN_ORGANO_sub(BoxOriginal(d, p))))

\* the text-box paragraphs whose candidate differs from their original
BoxesToRewrite(d) == {p \in LiveBoxParagraphs(d) : BoxCandidate(d, p) # BoxOriginal(d, p)}

\* C19: in the text-box pass, a paragraph of a txbxContent of the body, a header or a
\* footer whose candidate (normalized non-empty text nodes joined by spaces, ORG then DIR
\* deleted, trimmed) differs from its original gets the candidate in its first text node
\* and empty other text nodes, counts 1 in textboxes_cleaned and is detached when the
\* candidate is empty; with candidate = original nothing of it changes.
C19_TextboxRule ==
    [][\A c \in 1..Len(calls) :
        (calls[c].pc = "textboxes" /\ calls'[c].pc = "signature") =>
            LET d == calls[c].doc
                e == calls'[c].doc
            IN /\ \A p \in BoxesToRewrite(d) :
                    /\ e.nodes[p].texts = KeepInFirst(d.nodes[p].texts, BoxCandidate(d, p))
                    /\ e.nodes[p].texts[1] = BoxCandidate(d, p)
                    /\ e.nodes[p].parent =
                           IF BoxCandidate(d, p) = <<>> THEN 0 ELSE d.nodes[p].parent
               /\ \A p \in Ids(d) \ BoxesToRewrite(d) : e.nodes[p] = d.nodes[p]
               /\ SelfStats(c)' =
                    [SelfStats(c) EXCEPT
                        !.textboxes_cleaned = @ + Cardinality(BoxesToRewrite(d))]]_vars

\* the text-box pass has emptied and detached a paragraph whose ORG phrase was spread
\* over two text nodes
C19_Witness ==
    \E c \in 1..Len(calls) :
        /\ calls[c].pc = "signature"
        /\ SelfStats(c).textboxes_cleaned = 1
        /\ \E p \in LiveBoxParagraphs(calls[c].input) :
            /\ calls[c].input.nodes[p].texts = <<<<"O1", "sp">>, <<"O2">>>>
            /\ calls[c].doc.nodes[p].texts = <<<<>>, <<>>>>
            /\ calls[c].doc.nodes[p].parent = 0

\* the text-box paragraphs of d with no ORG or DIR match
PlainBoxParagraphs(d) == {p \in LiveBoxParagraphs(d) : ~IsInstitutional(BoxOriginal(d, p))}

\* the text of a text-box paragraph as stored
BoxRawText(d, p) == Concat(d.nodes[p].texts)

\* C20 as claimed: a text-box paragraph with no ORG or DIR match whose raw text differs
\* from its whitespace-normalized form is counted in textboxes_cleaned and gets the
\* normalized text in its first text node.
C20_Original ==
    [][\A c \in 1..Len(calls) :
        (calls[c].pc = "textboxes" /\ calls'[c].pc = "signature") =>
            \A p \in PlainBoxParagraphs(calls[c].doc) :
                BoxRawText(calls[c].doc, p) # normalize_whitespace(BoxRawText(calls[c].doc, p))
                => /\ SelfStats(c)'.textboxes_cleaned > SelfStats(c).textboxes_cleaned
                   /\ calls'[c].doc.nodes[p].texts[1] =
                          normalize_whitespace(BoxRawText(calls[c].doc, p))]_vars

\* the text-box paragraphs with no match whose original starts or ends with whitespace
EdgeWhitespaceBoxes(d) ==
    {p \in PlainBoxParagraphs(d) : BoxOriginal(d, p) # Strip(BoxOriginal(d, p))}

\* C20 as amended: a text-box paragraph with no ORG or DIR match is changed only when its
\* original starts or ends with whitespace: it is then counted in textboxes_cleaned and
\* its first text node gets the trimmed original; whitespace differences inside the text
\* change and count nothing.
C20_EdgeWhitespaceOnly ==
    [][\A c \in 1..Len(calls) :
        (calls[c].pc = "textboxes" /\ calls'[c].pc = "signature") =>
            LET d == calls[c].doc
                e == calls'[c].doc
            IN /\ \A p \in EdgeWhitespaceBoxes(d) :
                    e.nodes[p].texts[1] = Strip(BoxOriginal(d, p))
               /\ \A p \in PlainBoxParagraphs(d) \ EdgeWhitespaceBoxes(d) :
                    e.nodes[p] = d.nodes[p]
               /\ PlainBoxParagraphs(d) = LiveBoxParagraphs(d) =>
                    SelfStats(c)'.textboxes_cleaned =
                        SelfStats(c).textboxes_cleaned + Cardinality(EdgeWhitespaceBoxes(d))]_vars

\* the text-box pass has counted and rewritten " x  x", a paragraph with no marker, as
\* "x x"
C20_Witness ==
    \E c \in 1..Len(calls) :
        /\ calls[c].pc = "signature"
        /\ SelfStats(c).textboxes_cleaned = 1
        /\ \E p \in LiveBoxParagraphs(calls[c].doc) :
            /\ calls[c].input.nodes[p].texts = <<<<"sp", "x", "sp", "sp", "x">>>>
            /\ calls[c].doc.nodes[p].texts = <<<<"x", "sp", "x">>>>

PassOrder == <<"images", "paragraphs", "textboxes", "signature">>

\* the body paragraphs the redaction pass keeps, in order
KeptBody(d) == SelectSeq(Paragraphs(d), LAMBDA p : p \notin EmptiedByRedaction(d))

\* the body the truncation pass leaves when it reads the texts the redaction left
TruncatedAfterRedaction(d) ==
    LET ps == KeptBody(d)
        hits == {i \in 1..Len(ps) : SentinelIgnoringSpaces(TextAfterRedaction(ParaText(d, ps[i])))}
    IN IF hits = {} THEN ps
       ELSE SubSeq(ps, 1, (CHOOSE i \in hits : \A k \in hits : i <= k) - 1)

\* the passes run in the fixed order, the text-box pass visiting the roots of visits
\* after the body, and the truncation reads the redacted texts
PassesInOrder(c, visits) ==
    /\ calls[c].log = SubSeq(PassOrder, 1, Len(calls[c].log))
    /\ calls[c].visited =
           IF Len(calls[c].log) >= 3 THEN <<BodyRoot>> \o visits ELSE <<>>
    /\ Len(calls[c].log) = 4 => Paragraphs(calls[c].doc) = TruncatedAfterRedaction(calls[c].input)

\* every header of the sections, then every footer
HeadersThenFooters(secs) ==
    [i \in 1..Len(secs) |-> secs[i].hdr] \o [i \in 1..Len(secs) |-> secs[i].ftr]

\* section by section, the header and then the footer
SectionBySection(secs) ==
    [i \in 1..(2 * Len(secs)) |-> IF i % 2 = 1 THEN secs[(i + 1) \div 2].hdr
                                               ELSE secs[i \div 2].ftr]

\* C16 as claimed: image pruning, body redaction, text-box redaction and truncation run in
\* that order; the text-box pass visits the body, then every header, then every footer;
\* the truncation matches SENTINEL against the texts the redaction passes left.
C16_Original ==
    \A c \in 1..Len(calls) : PassesInOrder(c, HeadersThenFooters(calls[c].input.sections))

\* C16 as amended: the same order of passes; the text-box pass visits the body, then,
\* section by section, the header and the footer of each section.
C16_PassOrder ==
    \A c \in 1..Len(calls) : PassesInOrder(c, SectionBySection(calls[c].input.sections))

\* the four passes have run on a document of two sections with a text box in the body
\* and in every header and footer, and the truncation has cut at the paragraph that
\* holds SENTINEL only once redacted
C16_Witness ==
    \E c \in 1..Len(calls) :
        /\ calls[c].pc = "save"
        /\ calls[c].input = SectionDoc({2, 3, 4, 5, 6})
        /\ calls[c].visited = <<1, 2, 3, 4, 5>>
        /\ SelfStats(c).textboxes_cleaned = 5
        /\ SelfStats(c).signature_section_removed
        /\ Paragraphs(calls[c].doc) = <<>>

(***************************************************************************)
(* SpecConc: two request threads, each cleaning one document through       *)
(* get_cleaner().                                                          *)
(***************************************************************************)
ConcDocs == {ScenarioDoc, HdrDoc(<<"drawing">>, <<0>>), BodyDoc(<<Para(<<<<"x">>>>)>>)}

InitConc ==
    /\ heap = <<>>
    /\ cleaners = <<>>
    /\ inst = 0
    /\ req = NoRequest
    /\ \E d1 \in ConcDocs, d2 \in ConcDocs :
        calls = <<NewCall(d1, "a.docx", TRUE, TRUE, "fresh"),
                  NewCall(d2, "b.docx", TRUE, TRUE, "fresh")>>

NextConc == \E c \in 1..Len(calls) : Step(c)

SpecConc == InitConc /\ [][NextConc]_vars

(***************************************************************************)
(* SpecFault: clean_document on documents holding malformed elements, the  *)
(* elements whose handling raises inside a pass.                           *)
(***************************************************************************)
MaxMalformed == 3    \* malformed elements in a document

\* two sections; header 2 holds two drawings (6, 7) and a pict (8), header 4 a drawing (9);
\* the body three paragraphs with the ORG phrase (10, 11, 12); footer 3 a text box with two
\* paragraphs (14, 15), footer 5 a text box with one (17)
FaultBase ==
    [TwoSections EXCEPT !.nodes = @ \o
        <<Node("drawing", 2, <<>>), Node("drawing", 2, <<>>), Node("pict", 2, <<>>),
          Node("drawing", 4, <<>>),
          Node("p", BodyRoot, <<ORG>>), Node("p", BodyRoot, <<<<"x", "sp">>, ORG>>),
          Node("p", BodyRoot, <<ORG>>),
          Node("txbx", 3, <<>>), Node("p", 13, <<ORG>>), Node("p", 13, <<<<"x", "sp">> \o ORG>>),
          Node("txbx", 5, <<>>), Node("p", 16, <<ORG>>)>>]

\* the elements the passes handle one by one: carriers, body paragraphs, text-box paragraphs
FaultItems == {n \in Ids(FaultBase) : FaultBase.nodes[n].kind \in {"drawing", "pict", "p"}}

FaultDocs ==
    {[FaultBase EXCEPT !.malformed = m] :
        m \in {q \in SUBSET FaultItems : Cardinality(q) <= MaxMalformed}}

InitFault ==
    /\ heap = <<>>
    /\ cleaners = <<>>
    /\ inst = 0
    /\ req = NoRequest
    /\ \E d \in FaultDocs : calls = <<NewCall(d, "a.docx", TRUE, TRUE, "fresh")>>

SpecFault == InitFault /\ [][Next]_vars

(***************************************************************************)
(* Properties of the error handling and of the single passes.              *)
(***************************************************************************)
\* the elements of seq handled when a raise ends the loop: those in front of the first
\* malformed one; when a raise ends one element only (perItem): all but the malformed ones
Handled(d, seq, perItem) ==
    {seq[k] : k \in {i \in 1..Len(seq) :
                        IF perItem THEN ~Raises(d, seq[i])
                        ELSE \A j \in 1..i : ~Raises(d, seq[j])}}

\* the messages the loops over groups record: one for each group holding a malformed
\* element, or (perItem) one for each malformed element
RaisesIn(d, groups, perItem) ==
    IF perItem
    THEN Cardinality({n \in Ids(d) :
             Raises(d, n) /\ \E k \in DOMAIN groups : \E i \in 1..Len(groups[k]) : groups[k][i] = n})
    ELSE Cardinality({k \in DOMAIN groups : \E i \in 1..Len(groups[k]) : Raises(d, groups[k][i])})

\* the carriers of header h in the order the pass handles them: the drawings, then the picts
CarrierOrder(d, h) == DescendantsOfKind(d, h, "drawing") \o DescendantsOfKind(d, h, "pict")

\* the carrier is skipped by the pass
CarrierPreserved(d, n) ==
    IF d.nodes[n].kind = "drawing" THEN DrawingPreserved(d, n) ELSE PictPreserved(d, n)

\* the messages the step of call c appends to stats.errors
ErrorsRecorded(c) == Len(SelfStats(c)'.errors) - Len(SelfStats(c).errors)

\* what a pass of call c handles and records: each header's carriers and each container's
\* text-box paragraphs up to the first raise (or, perItem, all that do not raise), every
\* body paragraph that does not raise
PassHandles(c, perItem) ==
    LET d == calls[c].doc
        e == calls'[c].doc
        st == SelfStats(c)
        headers == [s \in 1..Len(d.sections) |-> CarrierOrder(d, d.sections[s].hdr)]
        boxes == [k \in 1..Len(TextboxVisits(d)) |-> TextboxParagraphs(d, TextboxVisits(d)[k])]
    IN /\ (calls[c].pc = "images" /\ calls'[c].pc = "paragraphs") =>
            /\ \A s \in DOMAIN headers : \A i \in 1..Len(headers[s]) :
                    LET n == headers[s][i]
                    IN IF n \in Handled(d, headers[s], perItem) /\ ~CarrierPreserved(d, n)
                       THEN e.nodes[n].parent = 0
                       ELSE e.nodes[n] = d.nodes[n]
            /\ ErrorsRecorded(c) = RaisesIn(d, headers, perItem)
       /\ (calls[c].pc = "paragraphs" /\ calls'[c].pc = "textboxes") =>
            /\ \A p \in ParagraphSet(d) :
                    e.nodes[p] = IF Raises(d, p) THEN d.nodes[p]
                                 ELSE CleanParagraph(d, st, p).doc.nodes[p]
            /\ ErrorsRecorded(c) = Cardinality({p \in ParagraphSet(d) : Raises(d, p)})
       /\ (calls[c].pc = "textboxes" /\ calls'[c].pc = "signature") =>
            /\ \A k \in DOMAIN boxes : \A i \in 1..Len(boxes[k]) :
                    LET n == boxes[k][i]
                    IN e.nodes[n] = IF n \in Handled(d, boxes[k], perItem)
                                    THEN CleanTextboxParagraph(d, st, n).doc.nodes[n]
                                    ELSE d.nodes[n]
            /\ ErrorsRecorded(c) = RaisesIn(d, boxes, perItem)

\* C21 as claimed: when the handling of one header image carrier, one body paragraph or
\* one text-box paragraph raises, one message is recorded for it, every other carrier of
\* the header, body paragraph and text-box paragraph of the container is still handled,
\* and clean_document returns instead of raising.
C21_Original ==
    /\ [](\A c \in 1..Len(calls) : calls[c].pc # "raised")
    /\ [][\A c \in 1..Len(calls) : PassHandles(c, TRUE)]_vars

\* C21 as amended: a raise on a body paragraph records one message and the following
\* paragraphs are still handled; a raise on a carrier records one message and ends the
\* pruning of that header (the carriers after it stay, the next section's header is
\* pruned); a raise on a text-box paragraph records one message and ends the cleaning of
\* that container (the text-box paragraphs after it stay, the next container is cleaned);
\* clean_document returns instead of raising.
C21_RecoveryPerRegion ==
    /\ [](\A c \in 1..Len(calls) : calls[c].pc # "raised")
    /\ [][\A c \in 1..Len(calls) : PassHandles(c, FALSE)]_vars

\* a call has returned three messages for a malformed first drawing, a malformed second
\* body paragraph and a malformed first text-box paragraph: the second drawing and the
\* second text-box paragraph are untouched, the other header, the other body paragraphs
\* and the other footer are cleaned
C21_Witness ==
    \E c \in 1..Len(calls) :
        /\ calls[c].pc = "done"
        /\ calls[c].origin = "fresh"
        /\ calls[c].input.malformed = {6, 11, 14}
        /\ Len(Returned(c).errors) = 3
        /\ calls[c].doc.nodes[7] = calls[c].input.nodes[7]
        /\ calls[c].doc.nodes[9].parent = 0
        /\ calls[c].doc.nodes[10].parent = 0 /\ calls[c].doc.nodes[12].parent = 0
        /\ calls[c].doc.nodes[15] = calls[c].input.nodes[15]
        /\ calls[c].doc.nodes[17].parent = 0

\* C22: after the image-pruning pass every header drawing without a table ancestor and
\* every header pict with neither a table ancestor nor a txbxContent inside it is gone
\* from its header, and images_removed is the number of carriers that were in the header
\* before the pass and are no longer in it.
C22_HeaderPruningCount ==
    \A c \in 1..Len(calls) :
        calls[c].pc = "paragraphs" =>
            LET d == calls[c].input
                gone == {n \in Carriers(d) : ~HasAncestor(calls[c].doc, n, HdrRoot)}
            IN /\ \A n \in Carriers(d) : ~CarrierPreserved(d, n) => n \in gone
               /\ SelfStats(c).images_removed = Cardinality(gone)

\* C23: the body redaction pass enters its loop body exactly once with every top-level
\* body paragraph present when the pass starts, in document order, however many of them
\* (adjacent ones included) it detaches on the way.
C23_EachParagraphOnce ==
    [][\A c \in 1..Len(calls) :
        (calls[c].pc = "paragraphs" /\ calls'[c].pc = "textboxes") =>
            /\ calls'[c].evaluated = Paragraphs(calls[c].doc)
            /\ \A p \in ParagraphSet(calls[c].doc) :
                   Cardinality({i \in 1..Len(calls'[c].evaluated) : calls'[c].evaluated[i] = p}) = 1]_vars

\* the pass has gone through a body of two adjacent paragraphs and detached both
C23_Witness ==
    \E c \in 1..Len(calls) :
        /\ calls[c].pc = "textboxes"
        /\ Len(calls[c].evaluated) = 2
        /\ Len(Paragraphs(calls[c].input)) = 2
        /\ \A i \in 1..2 : calls[c].doc.nodes[calls[c].evaluated[i]].parent = 0
        /\ SelfStats(c).paragraphs_removed = 2

\* C24: whenever clean_document returns with no recorded error, paragraphs_removed is the
\* number of top-level body paragraphs of the input minus that of the output: a paragraph
\* detached inside a text box is not counted, and none is counted by both the redaction
\* and the truncation.
C24_ParagraphAccounting ==
    \A c \in 1..Len(calls) :
        (calls[c].pc = "done" /\ Returned(c).errors = <<>>) =>
            Returned(c).paragraphs_removed =
                Len(Paragraphs(calls[c].input)) - Len(Paragraphs(calls[c].out))

\* a call has returned with no error after the redaction detached a body paragraph, the
\* text-box pass detached a text-box paragraph and the truncation cut two paragraphs
C24_Witness ==
    \E c \in 1..Len(calls) :
        /\ calls[c].pc = "done"
        /\ calls[c].input = MixedDoc
        /\ Returned(c).errors = <<>>
        /\ Returned(c).paragraphs_removed = 3
        /\ Returned(c).textboxes_cleaned = 1
        /\ calls[c].doc.nodes[10].parent = 0
        /\ Returned(c).signature_section_removed
        /\ Paragraphs(calls[c].out) = <<7>>

\* C25: whenever clean_document returns with no recorded error, no top-level body
\* paragraph with at least one run and no text-box paragraph of the output has a text
\* matching ORG or DIR, also when the deletion of one match joins the words around it
\* into a new match.
C25_NoMarkerSurvives ==
    \A c \in 1..Len(calls) :
        (calls[c].pc = "done" /\ Returned(c).errors = <<>>) =>
            /\ \A p \in ParagraphSet(calls[c].out) :
                   calls[c].out.nodes[p].texts # <<>> => ~IsInstitutional(ParaText(calls[c].out, p))
            /\ \A p \in LiveBoxParagraphs(calls[c].out) :
                   ~IsInstitutional(ParaText(calls[c].out, p))

\* the original of the text-box paragraph holds whitespace and nothing else
WhitespaceOnlyBox(d, p) == BoxOriginal(d, p) # <<>> /\ Strip(BoxOriginal(d, p)) = <<>>

\* C26 as claimed: a text-box paragraph whose text holds no ORG and no DIR match, one whose
\* text nodes hold only whitespace included, is never detached from its txbxContent by
\* clean_document.
C26_Original ==
    [][\A c \in 1..Len(calls) :
        \A p \in PlainBoxParagraphs(calls[c].doc) :
            calls'[c].doc.nodes[p].parent = calls[c].doc.nodes[p].parent]_vars

\* C26 as amended: a text-box paragraph whose text holds no ORG and no DIR match is
\* detached from its txbxContent exactly by the text-box pass and exactly when its text
\* nodes hold whitespace and nothing else; with any other text, with empty text nodes or
\* with no text node it is never detached by clean_document.
C26_DetachedWhenEmptied ==
    [][\A c \in 1..Len(calls) :
        \A p \in PlainBoxParagraphs(calls[c].doc) :
            IF calls[c].pc = "textboxes" /\ WhitespaceOnlyBox(calls[c].doc, p)
            THEN calls'[c].doc.nodes[p].parent = 0
            ELSE calls'[c].doc.nodes[p].parent = calls[c].doc.nodes[p].parent]_vars

\* the text-box pass has detached a paragraph holding one space, and counted it
C26_Witness ==
    \E c \in 1..Len(calls) :
        /\ calls[c].pc = "signature"
        /\ SelfStats(c).textboxes_cleaned = 1
        /\ \E p \in LiveBoxParagraphs(calls[c].input) :
            /\ calls[c].input.nodes[p].texts = <<<<"sp">>>>
            /\ calls[c].doc.nodes[p].parent = 0

\* the image carriers under the header of a section, and those of the document elsewhere
HeaderCarriers(d) ==
    {n \in Ids(d) : /\ d.nodes[n].kind \in {"drawing", "pict"}
                    /\ \E s \in 1..Len(d.sections) : HasAncestor(d, n, d.sections[s].hdr)}
OtherCarriers(d) ==
    {n \in Ids(d) \ HeaderCarriers(d) : d.nodes[n].kind \in {"drawing", "pict"} /\ InDocument(d, n)}

\* the document with the carriers outside the headers replaced by plain elements
WithoutOtherCarriers(d) ==
    [d EXCEPT !.nodes = [n \in Ids(d) |->
        IF n \in OtherCarriers(d) THEN [d.nodes[n] EXCEPT !.kind = "gone"] ELSE d.nodes[n]]]

\* C27: the image-pruning pass detaches no image carrier of a footer or of the body, and
\* images_removed is what it would be without those carriers.
C27_HeadersOnly ==
    [][\A c \in 1..Len(calls) :
        (calls[c].pc = "images" /\ calls'[c].pc = "paragraphs") =>
            LET d == calls[c].doc
            IN /\ \A n \in OtherCarriers(d) :
                    calls'[c].doc.nodes[n] = d.nodes[n] /\ InDocument(calls'[c].doc, n)
               /\ SelfStats(c)'.images_removed =
                      remove_header_images(WithoutOtherCarriers(d), SelfStats(c)).st.images_removed
               /\ SelfStats(c)'.images_removed - SelfStats(c).images_removed
                      <= Cardinality(HeaderCarriers(d))]_vars

\* the pass has detached and counted the drawing of the header and left the pict of the
\* footer and the drawing of the body paragraph where they were
C27_Witness ==
    \E c \in 1..Len(calls) :
        /\ calls[c].pc = "paragraphs"
        /\ calls[c].input = MixedDoc
        /\ SelfStats(c).images_removed = 1
        /\ calls[c].doc.nodes[4].parent = 0
        /\ calls[c].doc.nodes[5].parent = FtrRoot
        /\ calls[c].doc.nodes[8].parent = 7

app_CleanParagraph(d, st, p) ==
    LET texto == ParaText(d, p)
        texto_limpio == Strip(PATTERN_DIRECCION_sub(PATTERN_ORGANO_sub(texto)))
    IN IF ~(PATTERN_ORGANO_search(texto) \/ PATTERN_DIRECCION_search(texto))
       THEN [doc |-> d, st |-> st]
       ELSE IF texto_limpio # <<>>
            THEN [doc |-> IF d.nodes[p].texts # <<>>
                          THEN [d EXCEPT !.nodes[p].texts = KeepInFirst(@, texto_limpio)]
                          ELSE d,
                  st |-> Bump(st, "institutional_paragraphs_cleaned")]
            ELSE [doc |-> Detach(d, p), st |-> Bump(st, "paragraphs_removed")]

RECURSIVE app_CleanParagraphs(_, _, _)
\* for p in list(doc.paragraphs), the try block inside the loop
app_CleanParagraphs(d, st, ps) ==
    IF ps = <<>> THEN [doc |-> d, st |-> st]
    ELSE LET r == IF Raises(d, Head(ps)) THEN [doc |-> d, st |-> RecordError(st, "str(e)")]
                  ELSE app_CleanParagraph(d, st, Head(ps))
         IN app_CleanParagraphs(r.doc, r.st, Tail(ps))

\* " ".join(re.sub(r"\s+", " ", t.text or "") for t in ts): the empty text nodes are joined too
app_TextboxOriginal(ts) == JoinSp([k \in 1..Len(ts) |-> normalize_whitespace(ts[k])])

\* _clean_textboxes, the body of the loop for one text-box paragraph
app_CleanTextboxParagraph(d, st, p) ==
    LET ts == d.nodes[p].texts
        original == app_TextboxOriginal(ts)
        nuevo == Strip(PATTERN_DIRECCION_sub(PATTERN_ORGANO_sub(original)))
    IN IF ts = <<>> THEN [doc |-> d, st |-> st]
       ELSE IF nuevo # original
            THEN LET d1 == [d EXCEPT !.nodes[p].texts = KeepInFirst(@, nuevo)]
                     st1 == Bump(st, "textboxes_cleaned")
                 IN IF nuevo = <<>> /\ d1.nodes[p].parent # 0
                    THEN [doc |-> Detach(d1, p), st |-> st1]
                    ELSE [doc |-> d1, st |-> st1]
            ELSE [doc |-> d, st |-> st]

RECURSIVE app_CleanTextboxParagraphs(_, _, _)
\* _clean_textboxes: the try block around the whole loop
app_CleanTextboxParagraphs(d, st, ps) ==
    IF ps = <<>> THEN [doc |-> d, st |-> st]
    ELSE IF Raises(d, Head(ps)) THEN [doc |-> d, st |-> RecordError(st, "str(e)")]
         ELSE LET r == app_CleanTextboxParagraph(d, st, Head(ps))
              IN app_CleanTextboxParagraphs(r.doc, r.st, Tail(ps))

RECURSIVE app_CleanTextboxesOfRoots(_, _, _)
\* the _clean_textboxes calls of clean_document, one for each root
app_CleanTextboxesOfRoots(d, st, roots) ==
    IF roots = <<>> THEN [doc |-> d, st |-> st]
    ELSE LET r == app_CleanTextboxParagraphs(d, st, TextboxParagraphs(d, Head(roots)))
         IN app_CleanTextboxesOfRoots(r.doc, r.st, Tail(roots))

\* clean_document of app.py: the four passes in order, from the stats record st
app_clean_passes(d, st) ==
    LET a == remove_header_images(d, st)
        b == app_CleanParagraphs(a.doc, a.st, Paragraphs(a.doc))
        t == app_CleanTextboxesOfRoots(b.doc, b.st, TextboxVisits(b.doc))
    IN remove_signature_section(t.doc, t.st)

\* the five counters and flag of a stats record, the messages left out
FiveCounters(st) ==
    <<st.images_removed, st.institutional_paragraphs_cleaned, st.textboxes_cleaned,
      st.signature_section_removed, st.paragraphs_removed>>

\* C30: for every input document the DocumentCleaner of app.py and the DocumentCleaner of
\* app/services/document_cleaner.py give the same document tree and the same five
\* counters and flag.
C30_EnginesAgree ==
    \A c \in 1..Len(calls) :
        calls[c].pc = "done" =>
            LET r == app_clean_passes(calls[c].input, CleaningStats)
            IN /\ Serialize(r.doc) = calls[c].out
               /\ FiveCounters(r.st) = FiveCounters(Returned(c))

(***************************************************************************)
(* Upload validation: app/utils/validators.py.                             *)
(* A filename is a sequence of symbols: "a" a letter, "sp" a space, "sl" a *)
(* path separator, "q" a character secure_filename drops ("?"), "dot",     *)
(* "us" an underscore, and the letter groups "docx", "DOCX" (docx in any   *)
(* other casing) and "txt".                                                *)
(***************************************************************************)
\* CleanDocError subclasses with their status_code
InvalidFileError == [type |-> "InvalidFileError", status_code |-> 400]
UnsupportedFileTypeError == [type |-> "UnsupportedFileTypeError", status_code |-> 415]
FileTooLargeError == [type |-> "FileTooLargeError", status_code |-> 413]
NoFilesProvidedError == [type |-> "NoFilesProvidedError", status_code |-> 400]

RECURSIVE StripDotsAndUnderscores(_)
\* str.strip("._")
StripDotsAndUnderscores(s) ==
    IF s # <<>> /\ Head(s) \in {"dot", "us"} THEN StripDotsAndUnderscores(Tail(s))
    ELSE IF s # <<>> /\ s[Len(s)] \in {"dot", "us"}
         THEN StripDotsAndUnderscores(SubSeq(s, 1, Len(s) - 1))
         ELSE s

\* werkzeug secure_filename: separators become spaces, the words are joined by "_",
\* characters outside [A-Za-z0-9_.-] are dropped, dots and underscores stripped at the ends
secure_filename(filename) ==
    LET spaced == [i \in 1..Len(filename) |-> IF filename[i] = "sl" THEN "sp" ELSE filename[i]]
        words == Strip(normalize_whitespace(spaced))
        joined == [i \in 1..Len(words) |-> IF words[i] = "sp" THEN "us" ELSE words[i]]
    IN StripDotsAndUnderscores(SelectSeq(joined, LAMBDA c : c # "q"))

\* sanitize_filename: the safe name, <<>> standing for the InvalidFileError it raises
sanitize_filename(filename) == IF filename = <<>> THEN <<>> ELSE secure_filename(filename)

\* Path(filename).suffix.lower(): from the last dot, when it is neither first nor last
SuffixLower(filename) ==
    LET dots == {i \in 1..Len(filename) : filename[i] = "dot"}
        i == CHOOSE k \in dots : \A j \in dots : j <= k
    IN IF dots = {} \/ i = 1 \/ i = Len(filename) THEN <<>>
       ELSE [k \in 1..(Len(filename) - i + 1) |->
                IF filename[i + k - 1] = "DOCX" THEN "docx" ELSE filename[i + k - 1]]

\* validate_file_extension: file_ext in allowed_extensions
validate_file_extension(filename) == SuffixLower(filename) = <<"dot", "docx">>

\* MAX_CONTENT_LENGTH scaled down: the max_size _process_files hands to validate_docx_file
max_size == 5

\* validate_file_size accepting only sizes under max_size
validate_file_size_Under(size, max) == size < max

\* validate_file_size: not (size > max_size)
validate_file_size(size, max) == ~(size > max)

\* validate_docx_file: what it raises (<<>> when nothing), the name it returns and the
\* position it leaves the stream at
validate_docx_file(file, max) ==
    LET safe_filename == sanitize_filename(file.filename)
    IN IF file.filename = <<>> \/ safe_filename = <<>>
       THEN [raised |-> <<InvalidFileError>>, name |-> <<>>, pos |-> file.pos]
       ELSE IF ~validate_file_extension(safe_filename)
       THEN [raised |-> <<UnsupportedFileTypeError>>, name |-> <<>>, pos |-> file.pos]
       ELSE IF ~validate_file_size(file.size, max)
       THEN [raised |-> <<FileTooLargeError>>, name |-> <<>>, pos |-> 0]
       ELSE [raised |-> <<>>, name |-> safe_filename, pos |-> 0]

(***************************************************************************)
(* POST /limpiar_cedula: limpiar_endpoint and _process_files of            *)
(* app/routes/main.py, serving one request.                                *)
(***************************************************************************)
MaxNameLen == 4      \* symbols in the filename of a validated upload
MaxFiles == 2        \* files in a batch request

\* an uploaded FileStorage: magic = the content starts with a ZIP signature; loadOk =
\* python-docx can open it; pos = the position of its stream
File(filename, size, magic, d, loadOk, pos) ==
    [filename |-> filename, size |-> size, magic |-> magic, doc |-> d, loadOk |-> loadOk,
     pos |-> pos]

NameSym == {"a", "sp", "sl", "q", "dot", "docx", "DOCX"}
Sizes == {0, max_size - 1, max_size, max_size + 1}

\* the uploads handed to validate_docx_file: every filename, every size, the stream
\* standing at its end
ProbeFiles ==
    {File(n, sz, sz > 0, NoDoc, TRUE, sz) : n \in SeqsUpTo(NameSym, MaxNameLen), sz \in Sizes}

\* uploads of a batch: two good documents ("a.docx", "/a a.DOCX" of exactly max_size), a
\* ZIP that is no document, a file with no ZIP signature, a part with no filename, a
\* text file, an oversized document, a document named "?"
GoodFiles ==
    {File(<<"a", "dot", "docx">>, max_size - 1, TRUE, ScenarioDoc, TRUE, 0),
     File(<<"sl", "a", "sp", "a", "dot", "DOCX">>, max_size, TRUE, SpacedDoc, TRUE, 0)}
CorruptFile == File(<<"a", "a", "dot", "docx">>, max_size - 1, TRUE, NoDoc, FALSE, 0)
BatchFiles ==
    GoodFiles \cup
    {CorruptFile,
     File(<<"a", "dot", "docx">>, max_size - 1, FALSE, NoDoc, FALSE, 0),
     File(<<>>, 0, FALSE, NoDoc, FALSE, 0),
     File(<<"a", "dot", "txt">>, max_size - 1, FALSE, NoDoc, FALSE, 0),
     File(<<"a", "dot", "docx">>, max_size + 1, TRUE, ScenarioDoc, TRUE, 0),
     File(<<"q">>, max_size - 1, TRUE, ScenarioDoc, TRUE, 0)}

Requests == SeqsUpTo(BatchFiles, MaxFiles)

NoResponse == [kind |-> "none", status |-> 0, name |-> <<>>, entries |-> <<>>, error |-> "none"]

\* the error answered with status 400 whatever its class
ErrorResponse_BadRequest(e) ==
    [kind |-> "json", status |-> 400, name |-> <<>>, entries |-> <<>>, error |-> e.type]

\* return jsonify({"error": e.message}), e.status_code
ErrorResponse(e) ==
    [kind |-> "json", status |-> e.status_code, name |-> <<>>, entries |-> <<>>,
     error |-> e.type]

\* f"limpia_{filename}"
LimpiaName(filename) == <<"limpia_">> \o filename

\* _send_single_file: the stream as attachment under download_name
SendSingleFile(file_data) ==
    [kind |-> "docx", status |-> 200, name |-> LimpiaName(file_data.name),
     entries |-> <<[name |-> LimpiaName(file_data.name), content |-> file_data.stream]>>,
     error |-> "none"]

RECURSIVE ZipEntries(_, _)
\* the writestr calls of _send_multiple_files: each document, then its stats file
ZipEntries(files_data, stats_list) ==
    IF files_data = <<>> THEN <<>>
    ELSE <<[name |-> LimpiaName(Head(files_data).name), content |-> Head(files_data).stream],
           [name |-> LimpiaName(Head(files_data).name) \o <<"_stats.txt">>,
            content |-> Head(stats_list)]>>
         \o ZipEntries(Tail(files_data), Tail(stats_list))

\* _send_multiple_files
SendMultipleFiles(files_data, stats_list) ==
    [kind |-> "zip", status |-> 200, name |-> <<"cleandoc_limpios.zip">>,
     entries |-> ZipEntries(files_data, stats_list), error |-> "none"]

NewRequest(files) ==
    [pc |-> "receive", files |-> files, i |-> 1, cleaned_files |-> <<>>, stats_list |-> <<>>,
     validations |-> <<>>, response |-> NoResponse]

\* limpiar_endpoint up to the loop of _process_files: the request with no named file is
\* refused; otherwise get_cleaner() gives the instance, constructing it the first time
Receive ==
    /\ req.pc = "receive"
    /\ IF \A k \in 1..Len(req.files) : req.files[k].filename = <<>>
       THEN /\ req' = [req EXCEPT !.pc = "sent", !.response = ErrorResponse(NoFilesProvidedError)]
            /\ UNCHANGED <<heap, cleaners, inst>>
       ELSE /\ req' = [req EXCEPT !.pc = "process"]
            /\ IF inst = 0
               THEN /\ heap' = Append(heap, CleaningStats)
                    /\ cleaners' = Append(cleaners, [stats |-> Len(heap) + 1])
                    /\ inst' = Len(cleaners) + 1
               ELSE UNCHANGED <<heap, cleaners, inst>>
    /\ UNCHANGED calls

\* one iteration of "for file in files" in _process_files; a CleanDocError leaves the
\* loop and the function and is answered by limpiar_endpoint
ProcessFile ==
    /\ req.pc = "process"
    /\ req.i <= Len(req.files)
    /\ LET file == req.files[req.i]
           v == validate_docx_file(file, max_size)
           seen == [req EXCEPT !.validations = Append(@, [file |-> file, result |-> v]),
                               !.files[req.i].pos = v.pos]
           r == clean_passes(file.doc, CleaningStats)
       IN IF file.filename = <<>>
          THEN /\ req' = [req EXCEPT !.i = @ + 1]
               /\ UNCHANGED <<heap, cleaners>>
          ELSE IF v.raised # <<>>
          THEN /\ req' = [seen EXCEPT !.pc = "sent", !.response = ErrorResponse(v.raised[1])]
               /\ UNCHANGED <<heap, cleaners>>
          ELSE IF ~file.magic
          THEN /\ req' = [seen EXCEPT !.i = @ + 1]
               /\ UNCHANGED <<heap, cleaners>>
          ELSE /\ cleaners' = [cleaners EXCEPT ![inst].stats = Len(heap) + 1]
               /\ IF file.loadOk
                  THEN /\ heap' = Append(heap, r.st)
                       /\ req' = [seen EXCEPT
                              !.i = @ + 1,
                              !.cleaned_files =
                                  Append(@, [name |-> v.name, stream |-> Serialize(r.doc)]),
                              !.stats_list = Append(@, r.st)]
                  ELSE /\ heap' = Append(heap, CleaningStats)
                       /\ req' = [seen EXCEPT
                              !.pc = "sent",
                              !.response = ErrorResponse(FileProcessingError(v.name))]
    /\ UNCHANGED <<inst, calls>>

\* the answer chosen by the number of files sent
Respond_BySent ==
    /\ req.pc = "process"
    /\ req.i > Len(req.files)
    /\ req' = [req EXCEPT
                  !.pc = "sent",
                  !.response = IF req.cleaned_files = <<>> THEN ErrorResponse(InvalidFileError)
                               ELSE IF Len(req.files) = 1
                               THEN SendSingleFile(req.cleaned_files[1])
                               ELSE SendMultipleFiles(req.cleaned_files, req.stats_list)]
    /\ UNCHANGED <<heap, cleaners, inst, calls>>

\* limpiar_endpoint after _process_files returns
Respond ==
    /\ req.pc = "process"
    /\ req.i > Len(req.files)
    /\ req' = [req EXCEPT
                  !.pc = "sent",
                  !.response = IF req.cleaned_files = <<>> THEN ErrorResponse(InvalidFileError)
                               ELSE IF Len(req.cleaned_files) = 1
                               THEN SendSingleFile(req.cleaned_files[1])
                               ELSE SendMultipleFiles(req.cleaned_files, req.stats_list)]
    /\ UNCHANGED <<heap, cleaners, inst, calls>>

InitHttp ==
    /\ heap = <<>>
    /\ cleaners = <<>>
    /\ inst = 0
    /\ calls = <<>>
    /\ \E files \in Requests : req = NewRequest(files)

NextHttp == Receive \/ ProcessFile \/ Respond

SpecHttp == InitHttp /\ [][NextHttp]_vars

(***************************************************************************)
(* SpecValidate: validate_docx_file applied to one upload.                 *)
(***************************************************************************)
InitValidate ==
    /\ heap = <<>>
    /\ cleaners = <<>>
    /\ inst = 0
    /\ calls = <<>>
    /\ \E file \in ProbeFiles : req = [pc |-> "validate", file |-> file]

\* safe_filename, _ = validate_docx_file(file, max_size)
ValidateUpload ==
    /\ req.pc = "validate"
    /\ req' = [pc |-> "validated", file |-> req.file,
               result |-> validate_docx_file(req.file, max_size)]
    /\ UNCHANGED <<heap, cleaners, inst, calls>>

NextValidate == ValidateUpload

SpecValidate == InitValidate /\ [][NextValidate]_vars

\* C13: validate_docx_file raises InvalidFileError (400) for a missing or unsanitizable
\* filename, else UnsupportedFileTypeError (415) for a suffix other than .docx in any
\* casing, else FileTooLargeError (413) for a size above max_size, the first failing
\* check deciding; otherwise (a size of exactly max_size included) it returns the
\* sanitized name and leaves the stream at position 0.
C13_ValidationOutcomes ==
    req.pc = "validated" =>
        LET f == req.file
            safe == IF f.filename = <<>> THEN <<>> ELSE secure_filename(f.filename)
        IN IF safe = <<>>
           THEN req.result.raised = <<InvalidFileError>> /\ InvalidFileError.status_code = 400
           ELSE IF SuffixLower(safe) # <<"dot", "docx">>
           THEN /\ req.result.raised = <<UnsupportedFileTypeError>>
                /\ UnsupportedFileTypeError.status_code = 415
           ELSE IF f.size > max_size
           THEN req.result.raised = <<FileTooLargeError>> /\ FileTooLargeError.status_code = 413
           ELSE /\ req.result.raised = <<>>
                /\ req.result.name = safe
                /\ req.result.pos = 0

\* an upload of exactly max_size bytes whose name changes in the sanitizing, its stream
\* standing at the end, has passed the validation
C13_Witness ==
    /\ req.pc = "validated"
    /\ req.file.size = max_size
    /\ req.file.pos = max_size
    /\ req.result.raised = <<>>
    /\ req.result.name # req.file.filename
    /\ req.result.name = <<"a", "dot", "docx">>
    /\ req.result.pos = 0

(***************************************************************************)
(* Properties of the endpoint.                                             *)
(***************************************************************************)
\* the file is named, and its sanitized name, its suffix and its size are accepted
PassesValidation(f) ==
    /\ f.filename # <<>>
    /\ secure_filename(f.filename) # <<>>
    /\ SuffixLower(secure_filename(f.filename)) = <<"dot", "docx">>
    /\ f.size <= max_size

\* the file passes the validation and starts with a ZIP signature
IsValidUpload(f) == PassesValidation(f) /\ f.magic

\* the response holds the cleaned version of f
InResponse(f) ==
    \E k \in 1..Len(req.response.entries) :
        /\ req.response.entries[k].name = LimpiaName(secure_filename(f.filename))
        /\ req.response.entries[k].content = Serialize(clean_passes(f.doc, CleaningStats).doc)

\* C11: in a request of several documents, none rejected by the validation, a document
\* that clean_document fails on (FileProcessingError) does not stop the others: every
\* other valid document is cleaned and is in the response.
C11_BatchIsolation ==
    (/\ req.pc = "sent"
     /\ Len(req.files) > 1
     /\ \A k \in 1..Len(req.files) : IsValidUpload(req.files[k])
     /\ \E k \in 1..Len(req.files) : ~req.files[k].loadOk)
    => \A k \in 1..Len(req.files) : req.files[k].loadOk => InResponse(req.files[k])

NotSkipped(files) == SelectSeq(files, LAMBDA f : f.filename # <<>> /\ f.magic)

ValidationError(f) ==
    IF secure_filename(f.filename) = <<>> THEN InvalidFileError
    ELSE IF SuffixLower(secure_filename(f.filename)) # <<"dot", "docx">>
    THEN UnsupportedFileTypeError
    ELSE FileTooLargeError

\* C29: in _process_files a part with no filename and a file with no ZIP signature are
\* skipped and the files after them are processed; a file failing the filename, extension
\* or size validation ends the request with that error's status code and no cleaned file
\* is returned; cleaned_files and stats_list have the same length and the k-th stats
\* record is that of the k-th cleaned file.
C29_InvalidUploads ==
    req.pc \in {"process", "sent"} =>
        LET kept == NotSkipped(SubSeq(req.files, 1, req.i - 1))
            stopped == req.pc = "sent" /\ req.i <= Len(req.files)
                       /\ req.response # ErrorResponse(NoFilesProvidedError)
        IN /\ Len(req.cleaned_files) = Len(kept)
           /\ Len(req.stats_list) = Len(req.cleaned_files)
           /\ \A k \in 1..Len(kept) :
                  /\ req.cleaned_files[k].name = secure_filename(kept[k].filename)
                  /\ req.cleaned_files[k].stream =
                         Serialize(clean_passes(kept[k].doc, CleaningStats).doc)
                  /\ req.stats_list[k] = OwnStats(kept[k].doc)
           /\ stopped =>
                  LET f == req.files[req.i]
                  IN /\ f.filename # <<>>
                     /\ ~PassesValidation(f) \/ (f.magic /\ ~f.loadOk)
                     /\ req.response.entries = <<>>
                     /\ ~PassesValidation(f) =>
                            /\ req.response.kind = "json"
                            /\ req.response.status = ValidationError(f).status_code
                            /\ req.response.error = ValidationError(f).type
           /\ (req.pc = "sent" /\ req.i <= Len(req.files) /\ ~stopped) =>
                  \A k \in 1..Len(req.files) : req.files[k].filename = <<>>
           /\ \A k \in 1..(req.i - 1) :
                  \/ req.files[k].filename = <<>>
                  \/ PassesValidation(req.files[k]) /\ (req.files[k].magic => req.files[k].loadOk)

\* a request whose first file was cleaned and whose second file is a text file has been
\* answered with the 415 of the second file and no cleaned file
C29_Witness ==
    /\ req.pc = "sent"
    /\ Len(req.files) = 2
    /\ Len(req.cleaned_files) = 1
    /\ Len(req.stats_list) = 1
    /\ req.i = 2
    /\ req.response.status = 415
    /\ req.response.error = "UnsupportedFileTypeError"
    /\ req.response.entries = <<>>

====
